---- MODULE Spec2Model ----
(***************************************************************************)
(* gosocketio: the Engine.IO session state machine (engineio/session.go),  *)
(* and the Socket.IO room index and broadcast fan-out (memory_adapter.go,  *)
(* namespace.go, socket.go).                                               *)
(*                                                                         *)
(* Every task of the program (reader, writer, timer callbacks, the HTTP    *)
(* handler, application calls, the tasks Broadcast spawns) is a set of     *)
(* actions; an action is one step the code takes without releasing its     *)
(* lock, or between two synchronisation points.                            *)
(***************************************************************************)
EXTENDS Integers, Sequences, FiniteSets, Bags, TLC

(***************************************************************************)
(* Bounds of the model.                                                    *)
(***************************************************************************)
\* Capacity of the outbound channel: make(chan *Packet, 256), scaled down.
QueueCap == 2
\* MESSAGE packets the application gets enqueued on one session.
MaxAppSends == 1
\* PING and PONG frames of the client the reader handles on one session.
MaxClientFrames == 1
\* Ack ids one socket assigns (EmitWithAck), and the largest id of a packet
\* of the client.
MaxAcks == 2
\* Socket.IO packets of the client the reader dispatches on one socket.
MaxInbound == 2
\* Handlers registered for one event, and disconnect listeners of one socket.
MaxHandlers == 2

Sids == {"a", "b"}
\* The session whose Engine.IO machine Spec explores.
EioSids == {"a"}

\* Engine.IO packet types (engineio/packet.go)
PacketTypePing == "PING"
PacketTypePong == "PONG"
PacketTypeMessage == "MESSAGE"
PacketTypes == {PacketTypePing, PacketTypePong, PacketTypeMessage}

\* An Engine.IO packet.  The data of a MESSAGE packet is an encoded
\* Socket.IO packet: the CONNECT of addSocket, the EVENT of a Socket.Emit or
\* the EVENT of a broadcast.
Packet(type, data) == [type |-> type, data |-> data]
PingPacket == Packet(PacketTypePing, "")
PongPacket == Packet(PacketTypePong, "")
ConnectPacket == Packet(PacketTypeMessage, "CONNECT")
EmitPacket == Packet(PacketTypeMessage, "EVENT emit")
BroadcastPacket == Packet(PacketTypeMessage, "EVENT broadcast")

\* Socket.IO packet types (the digits Packet.Encode writes)
PacketTypeDisconnect == "1"
PacketTypeEvent == "2"
PacketTypeAck == "3"

\* The name of the namespace handleConnection puts every socket in.
DefaultNamespace == "/"

\* Ack ids: a packet's ID field is a pointer, nil (<<>>) or an id (<<n>>).
AckIds == 0..MaxAcks
NoId == <<>>
PacketIds == {NoId} \cup {<<n>> : n \in AckIds}

\* Event names, and the argument lists of events and acknowledgements.
Events == {"e1", "e2"}
ArgLists == {<<>>, <<"v1", "v2">>}

\* A Socket.IO packet.
SioPacket(type, nsp, id, data) ==
  [type |-> type, nsp |-> nsp, id |-> id, data |-> data]

\* Packet.Encode: the type, the namespace unless it is the default one, the
\* ack id if there is one, the data.
Encode(p) ==
  p.type \o (IF p.nsp # "" /\ p.nsp # "/" THEN p.nsp \o "," ELSE "")
         \o (IF p.id # NoId THEN ToString(p.id[1]) ELSE "")
         \o ToString(p.data)

\* sendPacket: the encoded Socket.IO packet is the data of a MESSAGE packet.
SioMessage(p) == Packet(PacketTypeMessage, Encode(p))

\* The ACK an ack callable sends, and the EVENT of EmitWithAck.
AckPacket(nsp, id, args) == SioMessage(SioPacket(PacketTypeAck, nsp, id, args))
AckedEmitPacket(id) ==
  SioMessage(SioPacket(PacketTypeEvent, DefaultNamespace, <<id>>, <<"emit">>))

AckPackets ==
  {AckPacket(DefaultNamespace, <<n>>, args) : n \in AckIds, args \in ArgLists}
AckedEmitPackets == {AckedEmitPacket(n) : n \in 1..MaxAcks}

Packets == {PingPacket, PongPacket, ConnectPacket, EmitPacket, BroadcastPacket}

\* Results of Session.Send
SendOk == "nil"
ErrSessionClosed == "session closed"
ErrSlowClient == "slow client"

NoReason == "none"

VARIABLES
  \* --- engineio.Session, one per sid ---
  httpPc,        \* position of ServeHTTP for the session
  onClose,       \* the registered close callback: "nil", "eio", "socket"
  closed,        \* the closed channel has been closed
  closePc,       \* closeOnce: "idle", "latched", "written", "done"
  closeReason,   \* reason of the Close call that won closeOnce
  cbAtClose,     \* the close callback registered when that call was made
  onCloseCalls,  \* invocations of the close callback
  closeFrames,   \* CLOSE frames written by Close
  connOpen,      \* the WebSocket has not been closed by conn.Close()
  outgoing,      \* the outbound channel: packets [type, data, n], n the
                 \* packet's place in the order of the successful Sends
  enqueued,      \* successful Sends so far, per packet
  enqueuedSio,   \* and those of the packets of acknowledgements, as a bag
  written,       \* the places n of the frames the writer wrote, in order
  pingsWritten,  \* PING frames the writer wrote
  lastSend,      \* result of the last Send call
  readerPc,      \* "idle", "run", "done"
  writerPc,      \* "idle", "run", "done"
  pingTimer,     \* timer the pingTimer field refers to: "nil", "armed", "spent"
  pingOrphans,   \* armed ping timers no field refers to any more
  pingTimeout,   \* timer the pingTimeout field refers to
  timeoutOrphans,\* armed pong-timeout timers no field refers to any more
  pingCb,        \* ping callbacks between Send(PING) and schedulePingTimeout
  pingsHandled,  \* client PINGs handled by handlePing
  pongsHandled,  \* client PONGs handled by handlePong
  strayPong,     \* the client sent a PONG no written PING asked for
  \* --- Namespace, MemoryAdapter, Socket ---
  sockets,       \* Namespace.sockets: the ids in the directory
  rooms,         \* MemoryAdapter.rooms: room -> set of socket ids
  socketRooms,   \* MemoryAdapter.socketRooms: socket id -> set of rooms
  sockRooms,     \* Socket.rooms of each socket
  hcPc,          \* position of Socket.handleClose: "idle", "leave",
                 \* "remove", "done"
  hcRooms,       \* rooms of handleClose's snapshot it has not left yet
  bc,            \* the Broadcast call of the adapter
  tasks,         \* sessions a goroutine of Broadcast has yet to Send on
  bcResult,      \* result of the Send Broadcast spawned for each session
  \* --- Socket, one per sid ---
  ackID,         \* the ack id counter
  ackHandlers,   \* ids of the pending ack callbacks
  ackRuns,       \* the ack callbacks started: <<id, args>> in order
  handlers,      \* event name -> the handlers registered, in order
  onDisconnect,  \* the disconnect listeners, in order
  inbound,       \* Socket.IO packets of the client dispatched so far
  lastIn,        \* the last of them
  started,       \* the handler tasks the last EVENT started, in order
  ackFuncs,      \* ack ids of the ack callables handed to handlers
  lastAck,       \* the last call of an ack callable
  discStarted,   \* the disconnect listener tasks started, in order
  \* --- Server ---
  namespaces,    \* the namespace directory: name -> Namespace instance
  nsCreated,     \* NewNamespace calls made for each name
  ofPc,          \* position of each task in Server.Of
  ofArg,         \* the argument of its Of call
  ofResult,      \* the instance its last Of call returned
  scPc,          \* position of Server.Close
  scLeft,        \* sessions its Range has not visited yet
  scCur,         \* the session whose Close it has called and waits for
  \* --- the codecs ---
  codec,         \* a packet, its encoding and what decoding that gives
  \* --- the tasks of the Broadcast calls that have returned ---
  order,         \* the calls made, their Sends to come and those made
  \* --- the tasks of the application ---
  procs          \* the Join or Leave call each task is in

\* what Close changes
latchVars == <<closed, closePc, closeReason, cbAtClose, pingTimer, pingTimeout>>
\* what Send changes
chanVars == <<outgoing, enqueued, enqueuedSio, lastSend>>

sessVars == <<httpPc, onClose, closed, closePc, closeReason, cbAtClose, onCloseCalls, closeFrames, connOpen, outgoing, enqueued, enqueuedSio, written,
              pingsWritten, lastSend, readerPc, writerPc, pingTimer, pingOrphans,
              pingTimeout, timeoutOrphans, pingCb, pingsHandled, pongsHandled, strayPong>>

\* the session but for its channel
restVars == <<httpPc, onClose, latchVars, onCloseCalls, closeFrames, connOpen,
              written, pingsWritten, readerPc, writerPc, pingOrphans,
              timeoutOrphans, pingCb, pingsHandled, pongsHandled, strayPong>>

adapterVars == <<rooms, socketRooms>>
closeVars == <<hcPc, hcRooms>>
bcVars == <<bc, tasks, bcResult>>
roomVars == <<sockets, adapterVars, sockRooms, closeVars, bcVars>>

ackVars == <<ackID, ackHandlers, ackRuns>>
eventVars == <<handlers, started, ackFuncs, lastAck>>
inVars == <<inbound, lastIn>>
sockVars == <<ackVars, eventVars, inVars, onDisconnect, discStarted>>
ofVars == <<namespaces, nsCreated, ofPc, ofArg, ofResult>>
scVars == <<scPc, scLeft, scCur>>
srvVars == <<ofVars, scVars>>
\* the runs of the two codecs, the Broadcast calls of one caller and the
\* calls of the application's tasks
extVars == <<codec, order, procs>>
appVars == <<sockVars, srvVars, extVars>>

vars == <<sessVars, roomVars, appVars>>

\* Rooms: the rooms named by the sockets' ids, which any socket can join.
Rooms == Sids

\* A Go map without keys.
EmptyMap == [k \in {} |-> {}]

\* No Broadcast call has been made.  Of a call the record keeps the
\* arguments and the targets it collected, and what the call found when it
\* collected them: the pool it drew them from (the members of the rooms, or
\* the directory if it was given no room), the sockets of the directory
\* that were in no room (if it was given no room) and the sockets named by
\* the rooms for which addSocket had returned; and the sockets of the pool
\* that were in the directory when it spawned its Sends; and the error it
\* returns.
NoBroadcast ==
  [phase |-> "idle", rooms |-> {}, except |-> {}, targets |-> {},
   pool |-> {}, roomless |-> {}, added |-> {}, live |-> {}, err |-> "none"]

\* NewSession: a fresh session has no callbacks, no timers, an empty channel.
FreshHandlers ==
  /\ httpPc = [s \in Sids |-> "stored"]
  /\ onClose = [s \in Sids |-> "nil"]
  /\ readerPc = [s \in Sids |-> "idle"]
  /\ writerPc = [s \in Sids |-> "idle"]
  /\ pingTimer = [s \in Sids |-> "nil"]

\* Sessions ServeHTTP has shaken hands with, registered its close callback
\* on and started: the state in which handleConnection gets them.
StartedHandlers ==
  /\ httpPc = [s \in Sids |-> "started"]
  /\ onClose = [s \in Sids |-> "eio"]
  /\ readerPc = [s \in Sids |-> "run"]
  /\ writerPc = [s \in Sids |-> "run"]
  /\ pingTimer = [s \in Sids |-> "armed"]

FreshSessions ==
  /\ closed = [s \in Sids |-> FALSE]
  /\ closePc = [s \in Sids |-> "idle"]
  /\ closeReason = [s \in Sids |-> NoReason]
  /\ cbAtClose = [s \in Sids |-> "nil"]
  /\ onCloseCalls = [s \in Sids |-> 0]
  /\ closeFrames = [s \in Sids |-> 0]
  /\ connOpen = [s \in Sids |-> TRUE]
  /\ outgoing = [s \in Sids |-> <<>>]
  /\ enqueued = [s \in Sids |-> [k \in Packets |-> 0]]
  /\ enqueuedSio = [s \in Sids |-> EmptyBag]
  /\ written = [s \in Sids |-> <<>>]
  /\ pingsWritten = [s \in Sids |-> 0]
  /\ lastSend = [s \in Sids |-> "none"]
  /\ pingOrphans = [s \in Sids |-> 0]
  /\ pingTimeout = [s \in Sids |-> "nil"]
  /\ timeoutOrphans = [s \in Sids |-> 0]
  /\ pingCb = [s \in Sids |-> 0]
  /\ pingsHandled = [s \in Sids |-> 0]
  /\ pongsHandled = [s \in Sids |-> 0]
  /\ strayPong = [s \in Sids |-> FALSE]

InitSessions == FreshHandlers /\ FreshSessions

\* NewNamespace, NewMemoryAdapter: no sockets, no rooms.
InitRooms ==
  /\ sockets = {}
  /\ rooms = EmptyMap
  /\ socketRooms = EmptyMap
  /\ sockRooms = [s \in Sids |-> {}]
  /\ hcPc = [s \in Sids |-> "idle"]
  /\ hcRooms = [s \in Sids |-> {}]
  /\ bc = NoBroadcast
  /\ tasks = {}
  /\ bcResult = [s \in Sids |-> "none"]

\* No packet of the client has been dispatched.
NoPacket == SioPacket("", "", NoId, <<>>)

\* No ack callable has been called.
NoAckCall == [id |-> NoId, args |-> <<>>, result |-> "none"]

\* NewSocket: no handlers, no listeners, no pending acks, counter at 0.
InitSockets ==
  /\ ackID = [s \in Sids |-> 0]
  /\ ackHandlers = [s \in Sids |-> {}]
  /\ ackRuns = [s \in Sids |-> <<>>]
  /\ handlers = [s \in Sids |-> [e \in Events |-> <<>>]]
  /\ onDisconnect = [s \in Sids |-> <<>>]
  /\ inbound = [s \in Sids |-> 0]
  /\ lastIn = [s \in Sids |-> NoPacket]
  /\ started = [s \in Sids |-> <<>>]
  /\ ackFuncs = [s \in Sids |-> {}]
  /\ lastAck = [s \in Sids |-> NoAckCall]
  /\ discStarted = [s \in Sids |-> <<>>]

\* The names the application refers to namespaces by, and the tasks that
\* call Server.Of.
NsNames == {"", "/", "/chat"}
Callers == {"t1", "t2"}

\* The tasks that call the operations of adapters, namespaces and sockets.
Goroutines == Callers \cup {"t3"}

\* The n-th Namespace instance made for a name.
Instance(name, n) == [name |-> name, n |-> n]
NoInstance == Instance("", 0)

\* No session is being closed by Server.Close.
NoSid == ""

\* NewServer: an empty directory, then Of("/"), which makes the default
\* namespace.  Server.Close has not been called.
InitServer ==
  /\ namespaces = [name \in {"/"} |-> Instance("/", 1)]
  /\ nsCreated = [name \in NsNames |-> IF name = "/" THEN 1 ELSE 0]
  /\ ofPc = [c \in Callers |-> "idle"]
  /\ ofArg = [c \in Callers |-> ""]
  /\ ofResult = [c \in Callers |-> NoInstance]
  /\ scPc = "idle"
  /\ scLeft = {}
  /\ scCur = NoSid

\* Neither codec has been given anything.
NoRun == [pc |-> "none"]
InitCodec == codec = NoRun

\* No Broadcast call has returned.
NoCalls == [calls |-> 0, pending |-> {}, sent |-> {}]
InitOrder == order = NoCalls

\* No task is in a call.
NoCall == [op |-> "none", sid |-> NoSid, room |-> ""]
InitProcs == procs = [c \in Goroutines |-> NoCall]

InitApp == InitSockets /\ InitServer /\ InitCodec /\ InitOrder /\ InitProcs

Init == InitSessions /\ InitRooms /\ InitApp

\* Session.Start has been called: the session is, or is about to be, in the
\* hands of the Socket.IO layer (handleConnection, addSocket).
Started(s) == httpPc[s] \in {"started", "routed", "listed", "joined", "added"}

\* Successful Sends on the session so far.
Enqueued(s) ==
  enqueued[s][PingPacket] + enqueued[s][PongPacket] + enqueued[s][ConnectPacket]
    + enqueued[s][EmitPacket] + enqueued[s][BroadcastPacket]
    + BagCardinality(enqueuedSio[s])

\* A Send whose capacity test is off by one.
SendResultsOverfull(q, isClosed) ==
  {r \in {SendOk, ErrSessionClosed, ErrSlowClient} :
     \/ r = SendOk /\ Len(q) <= QueueCap
     \/ r = ErrSessionClosed /\ isClosed
     \/ r = ErrSlowClient /\ ~(Len(q) <= QueueCap) /\ ~isClosed}

(***************************************************************************)
(* Session.Send: a select over the channel send, the closed channel and    *)
(* default.  Go picks among the ready cases at random, so with free        *)
(* capacity and a closed session both outcomes are possible; default is    *)
(* taken only when neither case is ready.                                  *)
(***************************************************************************)
SendResults(q, isClosed) ==
  {r \in {SendOk, ErrSessionClosed, ErrSlowClient} :
     \/ r = SendOk /\ Len(q) < QueueCap
     \/ r = ErrSessionClosed /\ isClosed
     \/ r = ErrSlowClient /\ ~(Len(q) < QueueCap) /\ ~isClosed}

\* The effect of one Send call on the session's channel.
Send(s, p) ==
  \E r \in SendResults(outgoing[s], closed[s]) :
    /\ outgoing' = [outgoing EXCEPT ![s] =
                      IF r = SendOk
                        THEN Append(@, [type |-> p.type, data |-> p.data,
                                     n |-> Enqueued(s) + 1])
                        ELSE @]
    /\ enqueued' = [enqueued EXCEPT ![s] =
                      IF r = SendOk /\ p \in Packets
                        THEN [@ EXCEPT ![p] = @ + 1] ELSE @]
    /\ enqueuedSio' = [enqueuedSio EXCEPT ![s] =
                         IF r = SendOk /\ p \notin Packets
                           THEN @ (+) SetToBag({p}) ELSE @]
    /\ lastSend' = [lastSend EXCEPT ![s] = r]

\* time.Timer.Stop on the timer a field refers to (nil: nothing to stop).
StopTimer(t) == IF t = "armed" THEN "spent" ELSE t

\* A Close without closeOnce: every call runs the body.
CloseNoOnce(s, reason, pto) ==
  /\ closePc' = [closePc EXCEPT ![s] = "latched"]
  /\ closed' = [closed EXCEPT ![s] = TRUE]
  /\ closeReason' = [closeReason EXCEPT ![s] = reason]
  /\ cbAtClose' = [cbAtClose EXCEPT ![s] = onClose[s]]
  /\ pingTimer' = [pingTimer EXCEPT ![s] = StopTimer(@)]
  /\ pingTimeout' = [pingTimeout EXCEPT ![s] = StopTimer(pto)]

(***************************************************************************)
(* Session.Close(reason): closeOnce lets the first call in; it closes the  *)
(* closed channel and stops the timers the two fields refer to.  A later   *)
(* call finds closeOnce taken and changes nothing.  pto is the state of    *)
(* the timer the pingTimeout field refers to when Close runs (a pong-      *)
(* timeout callback calls Close after its own timer has fired).            *)
(***************************************************************************)
Close(s, reason, pto) ==
  IF closePc[s] = "idle"
    THEN /\ closePc' = [closePc EXCEPT ![s] = "latched"]
         /\ closed' = [closed EXCEPT ![s] = TRUE]
         /\ closeReason' = [closeReason EXCEPT ![s] = reason]
         /\ cbAtClose' = [cbAtClose EXCEPT ![s] = onClose[s]]
         /\ pingTimer' = [pingTimer EXCEPT ![s] = StopTimer(@)]
         /\ pingTimeout' = [pingTimeout EXCEPT ![s] = StopTimer(pto)]
    ELSE /\ pingTimeout' = [pingTimeout EXCEPT ![s] = pto]
         /\ UNCHANGED <<closePc, closed, closeReason, cbAtClose, pingTimer>>

\* Close, second step: best-effort CLOSE frame, then conn.Close().
CloseWrite(s) ==
  /\ closePc[s] = "latched"
  /\ closePc' = [closePc EXCEPT ![s] = "written"]
  /\ closeFrames' = [closeFrames EXCEPT ![s] = @ + 1]
  /\ connOpen' = [connOpen EXCEPT ![s] = FALSE]
  /\ UNCHANGED <<roomVars, appVars, httpPc, onClose, closed, closeReason, cbAtClose, onCloseCalls,
                 chanVars, written, pingsWritten, readerPc, writerPc, pingTimer,
                 pingOrphans, pingTimeout, timeoutOrphans, pingCb,
                 pingsHandled, pongsHandled, strayPong>>

\* Close, last step: if s.onClose != nil { s.onClose(reason) }.  The
\* callback of the Engine.IO server deletes the session from its map; the
\* callback of a Socket is handleClose, which starts by taking a snapshot of
\* the socket's rooms.
CloseNotify(s) ==
  /\ closePc[s] = "written"
  /\ closePc' = [closePc EXCEPT ![s] = "done"]
  /\ onCloseCalls' = [onCloseCalls EXCEPT ![s] =
                        IF onClose[s] # "nil" THEN @ + 1 ELSE @]
  /\ IF onClose[s] = "socket"
       THEN /\ hcPc' = [hcPc EXCEPT ![s] = "leave"]
            /\ hcRooms' = [hcRooms EXCEPT ![s] = sockRooms[s]]
       ELSE UNCHANGED closeVars
  /\ UNCHANGED <<appVars, sockets, adapterVars, sockRooms, bcVars, httpPc, onClose, closed, closeReason, cbAtClose, closeFrames,
                 connOpen, chanVars, written, pingsWritten, readerPc, writerPc, pingTimer,
                 pingOrphans, pingTimeout, timeoutOrphans, pingCb,
                 pingsHandled, pongsHandled, strayPong>>

\* schedulePing: a new timer replaces the one the field referred to, which
\* stays armed if it was.
SchedulePing(s) ==
  /\ pingOrphans' = [pingOrphans EXCEPT ![s] =
                       IF pingTimer[s] = "armed" THEN @ + 1 ELSE @]
  /\ pingTimer' = [pingTimer EXCEPT ![s] = "armed"]

(***************************************************************************)
(* engineio.Server.ServeHTTP after NewSession and sessions.Store: write    *)
(* the handshake, register the close callback, start the session, route it.*)
(***************************************************************************)
\* Outcomes of a WriteMessage: it fails once the connection is closed, and
\* on an open connection it can fail when the network does (net).
WriteOk(s, net) ==
  IF connOpen[s] THEN (IF net THEN BOOLEAN ELSE {TRUE}) ELSE {FALSE}

Handshake(s, net) ==
  /\ httpPc[s] = "stored"
  /\ \E ok \in WriteOk(s, net) :
       IF ok THEN /\ httpPc' = [httpPc EXCEPT ![s] = "shaken"]
                  /\ UNCHANGED connOpen
             ELSE /\ httpPc' = [httpPc EXCEPT ![s] = "aborted"]
                  /\ connOpen' = [connOpen EXCEPT ![s] = FALSE]
  /\ UNCHANGED <<roomVars, appVars, onClose, latchVars, onCloseCalls, closeFrames, chanVars,
                 written, pingsWritten, readerPc, writerPc, pingOrphans, timeoutOrphans,
                 pingCb, pingsHandled, pongsHandled, strayPong>>

OnCloseEio(s) ==
  /\ httpPc[s] = "shaken"
  /\ httpPc' = [httpPc EXCEPT ![s] = "registered"]
  /\ onClose' = [onClose EXCEPT ![s] = "eio"]
  /\ UNCHANGED <<roomVars, appVars, latchVars, onCloseCalls, closeFrames, connOpen, chanVars,
                 written, pingsWritten, readerPc, writerPc, pingOrphans, timeoutOrphans,
                 pingCb, pingsHandled, pongsHandled, strayPong>>

\* Session.Start: go writeLoop(); go readLoop(); schedulePing().
Start(s) ==
  /\ httpPc[s] = "registered"
  /\ httpPc' = [httpPc EXCEPT ![s] = "started"]
  /\ writerPc' = [writerPc EXCEPT ![s] = "run"]
  /\ readerPc' = [readerPc EXCEPT ![s] = "run"]
  /\ SchedulePing(s)
  /\ UNCHANGED <<roomVars, appVars, onClose, closed, closePc, closeReason, cbAtClose, onCloseCalls, closeFrames, connOpen, chanVars, written, pingsWritten,
                 pingTimeout, timeoutOrphans, pingCb, pingsHandled, pongsHandled, strayPong>>

\* NewSocket: session.OnClose(socket.handleClose) replaces the callback.
NewSocket(s) ==
  /\ httpPc[s] = "started"
  /\ httpPc' = [httpPc EXCEPT ![s] = "routed"]
  /\ onClose' = [onClose EXCEPT ![s] = "socket"]
  /\ UNCHANGED <<roomVars, appVars, latchVars, onCloseCalls, closeFrames, connOpen, chanVars,
                 written, pingsWritten, readerPc, writerPc, pingOrphans, timeoutOrphans,
                 pingCb, pingsHandled, pongsHandled, strayPong>>

(***************************************************************************)
(* The ping timer's callback (schedulePing): Send(PING), then              *)
(* schedulePingTimeout().  The two are separate steps: the writer, the     *)
(* client and the reader can run in between.                               *)
(***************************************************************************)
PingFire(s) ==
  /\ \/ /\ pingTimer[s] = "armed"
        /\ pingTimer' = [pingTimer EXCEPT ![s] = "spent"]
        /\ UNCHANGED pingOrphans
     \/ /\ pingOrphans[s] > 0
        /\ pingOrphans' = [pingOrphans EXCEPT ![s] = @ - 1]
        /\ UNCHANGED pingTimer
  /\ Send(s, PingPacket)
  /\ pingCb' = [pingCb EXCEPT ![s] = @ + 1]
  /\ UNCHANGED <<roomVars, appVars, httpPc, onClose, closed, closePc, closeReason, cbAtClose, onCloseCalls, closeFrames, connOpen, written, pingsWritten, readerPc,
                 writerPc, pingTimeout, timeoutOrphans, pingsHandled, pongsHandled,
                 strayPong>>

\* A schedulePingTimeout that arms no timer.
SchedulePingTimeoutUnarmed(s) ==
  /\ timeoutOrphans' = timeoutOrphans
  /\ pingTimeout' = pingTimeout

\* schedulePingTimeout: the new timer replaces the one the field referred to.
SchedulePingTimeout(s) ==
  /\ timeoutOrphans' = [timeoutOrphans EXCEPT ![s] =
                          IF pingTimeout[s] = "armed" THEN @ + 1 ELSE @]
  /\ pingTimeout' = [pingTimeout EXCEPT ![s] = "armed"]

PingArm(s) ==
  /\ pingCb[s] > 0
  /\ pingCb' = [pingCb EXCEPT ![s] = @ - 1]
  /\ SchedulePingTimeout(s)
  /\ UNCHANGED <<roomVars, appVars, httpPc, onClose, closed, closePc, closeReason, cbAtClose, onCloseCalls, closeFrames, connOpen, chanVars, written, pingsWritten,
                 readerPc, writerPc, pingTimer, pingOrphans, pingsHandled, pongsHandled,
                 strayPong>>

\* PINGs the ping callbacks got enqueued.
PingsSent(s) == enqueued[s][PingPacket]

\* The pong-timeout timer's callback: s.Close("ping timeout").
TimeoutFire(s) ==
  /\ \/ /\ pingTimeout[s] = "armed"
        /\ Close(s, "ping timeout", "spent")
        /\ UNCHANGED timeoutOrphans
     \/ /\ timeoutOrphans[s] > 0
        /\ timeoutOrphans' = [timeoutOrphans EXCEPT ![s] = @ - 1]
        /\ Close(s, "ping timeout", pingTimeout[s])
  /\ UNCHANGED <<roomVars, appVars, httpPc, onClose, onCloseCalls, closeFrames, connOpen,
                 chanVars, written, pingsWritten, readerPc, writerPc, pingOrphans, pingCb,
                 pingsHandled, pongsHandled, strayPong>>

(***************************************************************************)
(* readLoop: one frame per step.  After conn.Close() ReadMessage only      *)
(* fails, and on an open connection it can fail when the network does      *)
(* (net); a read error ends the loop and runs the deferred                 *)
(* Close("read error").                                                    *)
(***************************************************************************)
CanRead(s) == readerPc[s] = "run" /\ connOpen[s]

\* The client may still send a heartbeat frame.
MoreFrames(s) == pingsHandled[s] + pongsHandled[s] < MaxClientFrames

\* A handlePing that also schedules the next PING, as handlePong does.
ReadPingRearm(s) ==
  /\ CanRead(s)
  /\ MoreFrames(s)
  /\ pingsHandled' = [pingsHandled EXCEPT ![s] = @ + 1]
  /\ Send(s, PongPacket)
  /\ SchedulePing(s)
  /\ UNCHANGED <<roomVars, appVars, httpPc, onClose, closed, closePc, closeReason,
                 cbAtClose, pingTimeout, onCloseCalls, closeFrames, connOpen,
                 written, pingsWritten, readerPc, writerPc, timeoutOrphans,
                 pingCb, pongsHandled, strayPong>>

\* handlePing: s.Send(PONG)
ReadPing(s) ==
  /\ CanRead(s)
  /\ MoreFrames(s)
  /\ pingsHandled' = [pingsHandled EXCEPT ![s] = @ + 1]
  /\ Send(s, PongPacket)
  /\ UNCHANGED <<roomVars, appVars, httpPc, onClose, latchVars, onCloseCalls, closeFrames,
                 connOpen, written, pingsWritten, readerPc, writerPc, pingOrphans,
                 timeoutOrphans, pingCb, pongsHandled, strayPong>>

\* handlePong: stop the timer the pingTimeout field refers to, schedulePing.
HandlePong(s) ==
  /\ pingTimeout' = [pingTimeout EXCEPT ![s] = StopTimer(@)]
  /\ SchedulePing(s)

ReadPong(s) ==
  /\ CanRead(s)
  /\ MoreFrames(s)
  /\ HandlePong(s)
  /\ pongsHandled' = [pongsHandled EXCEPT ![s] = @ + 1]
  /\ strayPong' = [strayPong EXCEPT ![s] =
                     @ \/ pingsWritten[s] <= pongsHandled[s]]
  /\ UNCHANGED <<roomVars, appVars, httpPc, onClose, closed, closePc, closeReason, cbAtClose, onCloseCalls, closeFrames, connOpen, chanVars, written, pingsWritten,
                 readerPc, writerPc, timeoutOrphans, pingCb, pingsHandled>>

\* A reader that takes a CLOSE packet for a failed read.
ReadCloseAsError(s) ==
  /\ CanRead(s)
  /\ Close(s, "read error", pingTimeout[s])
  /\ UNCHANGED <<roomVars, appVars, httpPc, onClose, onCloseCalls, closeFrames, connOpen,
                 chanVars, written, pingsWritten, readerPc, writerPc, pingOrphans,
                 timeoutOrphans, pingCb, pingsHandled, pongsHandled, strayPong>>

\* A CLOSE packet: s.Close("client closed"); the loop goes on reading.
ReadClose(s) ==
  /\ CanRead(s)
  /\ Close(s, "client closed", pingTimeout[s])
  /\ UNCHANGED <<roomVars, appVars, httpPc, onClose, onCloseCalls, closeFrames, connOpen,
                 chanVars, written, pingsWritten, readerPc, writerPc, pingOrphans,
                 timeoutOrphans, pingCb, pingsHandled, pongsHandled, strayPong>>

\* ReadMessage fails: return, and the deferred Close("read error") runs.
ReadError(s, net) ==
  /\ readerPc[s] = "run"
  /\ net \/ ~connOpen[s]
  /\ readerPc' = [readerPc EXCEPT ![s] = "done"]
  /\ Close(s, "read error", pingTimeout[s])
  /\ UNCHANGED <<roomVars, appVars, httpPc, onClose, onCloseCalls, closeFrames, connOpen,
                 chanVars, written, pingsWritten, writerPc, pingOrphans, timeoutOrphans,
                 pingCb, pingsHandled, pongsHandled, strayPong>>

(***************************************************************************)
(* writeLoop: a select over the channel and closed.  A packet taken from   *)
(* the channel is written; a failed write (certain once the connection is  *)
(* closed) calls Close("write error") and ends the loop.                   *)
(***************************************************************************)
\* A writer that takes the newest packet of the channel.
DequeueLast(q) == [pkt |-> q[Len(q)], rest |-> SubSeq(q, 1, Len(q) - 1)]

\* The packet the writer takes from the channel, and what is left.
Dequeue(q) == [pkt |-> Head(q), rest |-> Tail(q)]

WriterWrite(s, net) ==
  /\ writerPc[s] = "run"
  /\ outgoing[s] # <<>>
  /\ LET d == Dequeue(outgoing[s]) IN
     /\ outgoing' = [outgoing EXCEPT ![s] = d.rest]
     /\ \E ok \in WriteOk(s, net) :
          IF ok
            THEN /\ written' = [written EXCEPT ![s] = Append(@, d.pkt.n)]
                 /\ pingsWritten' = [pingsWritten EXCEPT ![s] =
                        IF d.pkt.type = PacketTypePing THEN @ + 1 ELSE @]
                 /\ UNCHANGED <<writerPc, latchVars>>
            ELSE /\ writerPc' = [writerPc EXCEPT ![s] = "done"]
                 /\ Close(s, "write error", pingTimeout[s])
                 /\ UNCHANGED <<written, pingsWritten>>
  /\ UNCHANGED <<roomVars, appVars, httpPc, onClose, onCloseCalls, closeFrames, connOpen,
                 enqueued, enqueuedSio, lastSend, readerPc, pingOrphans, timeoutOrphans,
                 pingCb, pingsHandled, pongsHandled, strayPong>>

\* A writer that returns although closed is not closed.
WriterExitOpen(s) ==
  /\ writerPc[s] = "run"
  /\ writerPc' = [writerPc EXCEPT ![s] = "done"]
  /\ UNCHANGED <<roomVars, appVars, httpPc, onClose, latchVars, onCloseCalls, closeFrames,
                 connOpen, chanVars, written, pingsWritten, readerPc, pingOrphans,
                 timeoutOrphans, pingCb, pingsHandled, pongsHandled, strayPong>>

\* case <-s.closed: return
WriterExit(s) ==
  /\ writerPc[s] = "run"
  /\ closed[s]
  /\ writerPc' = [writerPc EXCEPT ![s] = "done"]
  /\ UNCHANGED <<roomVars, appVars, httpPc, onClose, latchVars, onCloseCalls, closeFrames,
                 connOpen, chanVars, written, pingsWritten, readerPc, pingOrphans,
                 timeoutOrphans, pingCb, pingsHandled, pongsHandled, strayPong>>

(***************************************************************************)
(* Calls from outside the session's own tasks.                             *)
(***************************************************************************)
\* Socket.Emit -> Socket.sendPacket: session.Send of a MESSAGE packet that
\* carries an EVENT, once the session has been handed to the layer above.
AppSend(s) ==
  /\ Started(s)
  /\ enqueued[s][EmitPacket] < MaxAppSends
  /\ Send(s, EmitPacket)
  /\ UNCHANGED <<roomVars, appVars, httpPc, onClose, latchVars, onCloseCalls, closeFrames,
                 connOpen, written, pingsWritten, readerPc, writerPc, pingOrphans,
                 timeoutOrphans, pingCb, pingsHandled, pongsHandled, strayPong>>

\* engineio.Server.Close calls Close("server shutdown") on every stored
\* session.
ServerClose(s) ==
  /\ Close(s, "server shutdown", pingTimeout[s])
  /\ UNCHANGED <<roomVars, appVars, httpPc, onClose, onCloseCalls, closeFrames, connOpen,
                 chanVars, written, pingsWritten, readerPc, writerPc, pingOrphans,
                 timeoutOrphans, pingCb, pingsHandled, pongsHandled, strayPong>>

\* Socket.Disconnect: the application got the socket from the connect
\* callback, which addSocket calls last.
Disconnect(s) ==
  /\ httpPc[s] = "added"
  /\ Close(s, "server disconnect", pingTimeout[s])
  /\ UNCHANGED <<roomVars, appVars, httpPc, onClose, onCloseCalls, closeFrames, connOpen,
                 chanVars, written, pingsWritten, readerPc, writerPc, pingOrphans,
                 timeoutOrphans, pingCb, pingsHandled, pongsHandled, strayPong>>

SessionNext(s) ==
  \/ Handshake(s, TRUE)
  \/ OnCloseEio(s)
  \/ Start(s)
  \/ PingFire(s)
  \/ PingArm(s)
  \/ TimeoutFire(s)
  \/ ReadPing(s)
  \/ ReadPong(s)
  \/ ReadClose(s)
  \/ ReadError(s, TRUE)
  \/ WriterWrite(s, TRUE)
  \/ WriterExit(s)
  \/ AppSend(s)
  \/ ServerClose(s)
  \/ CloseWrite(s)
  \/ CloseNotify(s)

Next == \E s \in EioSids : SessionNext(s)

Spec == Init /\ [][Next]_vars

(***************************************************************************)
(* The session with a quiet environment: the network does not fail, the    *)
(* client sends no CLOSE and the application does not close the session,   *)
(* so the heartbeat is the only cause of a close.  The Go runtime runs     *)
(* every due timer callback and every runnable task, hence the weak        *)
(* fairness of the timer callbacks and of the steps of Close.              *)
(***************************************************************************)
QuietNext ==
  \E s \in EioSids :
    \/ Handshake(s, FALSE)
    \/ OnCloseEio(s)
    \/ Start(s)
    \/ PingFire(s)
    \/ PingArm(s)
    \/ TimeoutFire(s)
    \/ ReadPing(s)
    \/ ReadPong(s)
    \/ ReadError(s, FALSE)
    \/ WriterWrite(s, FALSE)
    \/ WriterExit(s)
    \/ AppSend(s)
    \/ CloseWrite(s)
    \/ CloseNotify(s)

QuietSpec ==
  /\ Init
  /\ [][QuietNext]_vars
  /\ \A s \in EioSids :
       /\ WF_vars(PingArm(s))
       /\ WF_vars(TimeoutFire(s))
       /\ WF_vars(CloseWrite(s))
       /\ WF_vars(CloseNotify(s))

(***************************************************************************)
(* MemoryAdapter.  Each method runs under a.mu; Broadcast holds the read   *)
(* lock from the collection of its targets to the spawning of its Sends,   *)
(* so the writing methods wait for it.                                     *)
(***************************************************************************)
AdapterWritable == bc.phase # "collected"

\* A room lookup that finds the members of every room.
MembersOfAnyRoom(room) == UNION {rooms[r] : r \in DOMAIN rooms}

\* a.rooms[room], the nil map read as empty
Members(room) == IF room \in DOMAIN rooms THEN rooms[room] ELSE {}

\* a.socketRooms[sid], the nil map read as empty
RoomsOf(sid) == IF sid \in DOMAIN socketRooms THEN socketRooms[sid] ELSE {}

\* m[k][e] = true, the inner map made if missing
MapAdd(m, k, e) ==
  [x \in DOMAIN m \cup {k} |->
     IF x = k THEN (IF k \in DOMAIN m THEN m[k] ELSE {}) \cup {e} ELSE m[x]]

\* A removal that leaves the emptied inner map in place.
MapRemoveKeepsKey(m, k, e) ==
  IF k \notin DOMAIN m THEN m ELSE [m EXCEPT ![k] = @ \ {e}]

\* if m[k] != nil { delete(m[k], e); if len(m[k]) == 0 { delete(m, k) } }
MapRemove(m, k, e) ==
  IF k \notin DOMAIN m THEN m
  ELSE IF m[k] \ {e} = {} THEN [x \in DOMAIN m \ {k} |-> m[x]]
  ELSE [m EXCEPT ![k] = @ \ {e}]

\* MemoryAdapter.Add(socketID, room)
Add(sid, room) ==
  /\ rooms' = MapAdd(rooms, room, sid)
  /\ socketRooms' = MapAdd(socketRooms, sid, room)

\* MemoryAdapter.Remove(socketID, room)
Remove(sid, room) ==
  /\ rooms' = MapRemove(rooms, room, sid)
  /\ socketRooms' = MapRemove(socketRooms, sid, room)

\* The loop of RemoveAll over the rooms rs of the socket, in any order.
RECURSIVE RemoveFromRooms(_, _, _)
RemoveFromRooms(m, rs, sid) ==
  IF rs = {} THEN m
  ELSE LET r == CHOOSE x \in rs : TRUE
       IN RemoveFromRooms(MapRemove(m, r, sid), rs \ {r}, sid)

\* MemoryAdapter.RemoveAll(socketID)
RemoveAll(sid) ==
  /\ rooms' = RemoveFromRooms(rooms, RoomsOf(sid), sid)
  /\ socketRooms' = [x \in DOMAIN socketRooms \ {sid} |-> socketRooms[x]]

\* Socket.Join(room): the socket's own set, then the adapter.
Join(s, room) ==
  /\ sockRooms' = [sockRooms EXCEPT ![s] = @ \cup {room}]
  /\ Add(s, room)

\* Socket.Leave(room)
Leave(s, room) ==
  /\ sockRooms' = [sockRooms EXCEPT ![s] = @ \ {room}]
  /\ Remove(s, room)

(***************************************************************************)
(* Namespace.addSocket, after NewSocket: enter the socket in the           *)
(* directory, join the room named by its id, send the CONNECT packet.      *)
(***************************************************************************)
Register(s) ==
  /\ httpPc[s] = "routed"
  /\ httpPc' = [httpPc EXCEPT ![s] = "listed"]
  /\ sockets' = sockets \cup {s}
  /\ UNCHANGED <<onClose, latchVars, onCloseCalls, closeFrames, connOpen,
                 chanVars, written, pingsWritten, readerPc, writerPc,
                 pingOrphans, timeoutOrphans, pingCb, pingsHandled,
                 pongsHandled, strayPong>>
  /\ UNCHANGED <<adapterVars, sockRooms, closeVars, bcVars, appVars>>

JoinOwn(s) ==
  /\ httpPc[s] = "listed"
  /\ AdapterWritable
  /\ httpPc' = [httpPc EXCEPT ![s] = "joined"]
  /\ Join(s, s)
  /\ UNCHANGED <<onClose, latchVars, onCloseCalls, closeFrames, connOpen,
                 chanVars, written, pingsWritten, readerPc, writerPc,
                 pingOrphans, timeoutOrphans, pingCb, pingsHandled,
                 pongsHandled, strayPong>>
  /\ UNCHANGED <<sockets, closeVars, bcVars, appVars>>

SendConnect(s) ==
  /\ httpPc[s] = "joined"
  /\ httpPc' = [httpPc EXCEPT ![s] = "added"]
  /\ Send(s, ConnectPacket)
  /\ UNCHANGED <<onClose, latchVars, onCloseCalls, closeFrames, connOpen,
                 written, pingsWritten, readerPc, writerPc, pingOrphans,
                 timeoutOrphans, pingCb, pingsHandled, pongsHandled, strayPong>>
  /\ UNCHANGED <<roomVars, appVars>>

\* The application, holding the socket since the connect callback, joins or
\* leaves a room while the socket is open.
AppJoin(s) ==
  /\ httpPc[s] = "added"
  /\ ~closed[s]
  /\ AdapterWritable
  /\ \E room \in Rooms : Join(s, room)
  /\ UNCHANGED <<sessVars, sockets, closeVars, bcVars, appVars>>

\* Socket.Emit by the application, while the socket is open.
Emit(s) ==
  /\ httpPc[s] = "added"
  /\ ~closed[s]
  /\ AppSend(s)

AppLeave(s) ==
  /\ httpPc[s] = "added"
  /\ ~closed[s]
  /\ AdapterWritable
  /\ \E room \in Rooms : Leave(s, room)
  /\ UNCHANGED <<sessVars, sockets, closeVars, bcVars, appVars>>

(***************************************************************************)
(* Socket.handleClose, after the snapshot: Leave every room of it; start   *)
(* every disconnect listener of the list, read under the lock, in a task   *)
(* of its own with the reason; then Namespace.removeSocket, which deletes  *)
(* the socket from the directory and then calls RemoveAll.                 *)
(***************************************************************************)
\* OnDisconnect: append(s.onDisconnect, handler)
OnDisconnect(s, l) ==
  /\ httpPc[s] = "added"
  /\ Len(onDisconnect[s]) < MaxHandlers
  /\ onDisconnect' = [onDisconnect EXCEPT ![s] = Append(@, l)]
  /\ UNCHANGED <<extVars, srvVars, sessVars, roomVars, ackVars, eventVars, inVars, discStarted>>

\* A handleClose that starts the first listener only.
DisconnectTasksFirst(ls, reason) ==
  [i \in 1..(IF ls = <<>> THEN 0 ELSE 1) |->
     [listener |-> ls[i], reason |-> reason]]

\* for _, handler := range handlers { go handler(reason) }
DisconnectTasks(ls, reason) ==
  [i \in 1..Len(ls) |-> [listener |-> ls[i], reason |-> reason]]

HandleCloseLeave(s) ==
  /\ hcPc[s] = "leave"
  /\ AdapterWritable
  /\ \E room \in hcRooms[s] :
       /\ Leave(s, room)
       /\ hcRooms' = [hcRooms EXCEPT ![s] = @ \ {room}]
  /\ UNCHANGED <<sessVars, sockets, hcPc, bcVars, appVars>>

RemoveSocket(s) ==
  /\ hcPc[s] = "leave"
  /\ hcRooms[s] = {}
  /\ hcPc' = [hcPc EXCEPT ![s] = "remove"]
  /\ discStarted' = [discStarted EXCEPT ![s] =
                       @ \o DisconnectTasks(onDisconnect[s], closeReason[s])]
  /\ sockets' = sockets \ {s}
  /\ UNCHANGED <<extVars, srvVars, sessVars, adapterVars, sockRooms, hcRooms, bcVars, ackVars,
                 eventVars, inVars, onDisconnect>>

RemoveSocketRooms(s) ==
  /\ hcPc[s] = "remove"
  /\ AdapterWritable
  /\ hcPc' = [hcPc EXCEPT ![s] = "done"]
  /\ RemoveAll(s)
  /\ UNCHANGED <<sessVars, sockets, sockRooms, hcRooms, bcVars, appVars>>

\* MemoryAdapter.Close.  Server.Close calls it after it has called Close on
\* every session; here every session has been closed before.
AdapterClose ==
  /\ \A s \in Sids : closePc[s] # "idle"
  /\ AdapterWritable
  /\ rooms' = EmptyMap
  /\ socketRooms' = EmptyMap
  /\ UNCHANGED <<sessVars, sockets, sockRooms, closeVars, bcVars, appVars>>

(***************************************************************************)
(* BroadcastOperator.Emit -> MemoryAdapter.Broadcast(packet, rooms,        *)
(* except).  With no room the targets are the ids of the directory, else   *)
(* the members of the rooms; the excluded ids are left out.  Then, for     *)
(* every target found in the directory, a goroutine is spawned that calls  *)
(* Send on the socket's session; Broadcast returns without waiting.        *)
(***************************************************************************)
RoomLists == SUBSET Rooms
ExceptLists == {{}} \cup {{x} : x \in Sids}

\* A collection that ignores the exclusion list.
TargetsNoExcept(rs, ex) ==
  IF rs = {} THEN sockets
  ELSE UNION {Members(room) : room \in rs}

\* A collection that, given no room, takes the members of all rooms.
TargetsOfAllRooms(rs, ex) ==
  IF rs = {} THEN UNION {Members(room) : room \in Rooms} \ ex
  ELSE UNION {Members(room) : room \in rs} \ ex

Targets(rs, ex) ==
  IF rs = {} THEN sockets \ ex
  ELSE UNION {Members(room) : room \in rs} \ ex

BroadcastCollect ==
  /\ bc.phase = "idle"
  /\ \E rs \in RoomLists, ex \in ExceptLists :
       bc' = [phase |-> "collected", rooms |-> rs, except |-> ex,
              targets |-> Targets(rs, ex),
              pool |-> IF rs = {} THEN sockets
                       ELSE {s \in Sids : \E room \in rs \cap DOMAIN rooms :
                                             s \in rooms[room]},
              roomless |-> IF rs = {}
                             THEN {s \in sockets : s \notin DOMAIN socketRooms}
                             ELSE {},
              added |-> {s \in rs : httpPc[s] = "added"},
              live |-> {}, err |-> "none"]
  /\ UNCHANGED <<appVars, sessVars, sockets, adapterVars, sockRooms, closeVars, tasks,
                 bcResult>>

\* A Broadcast that spawns a Send for every target, in the directory or not.
BroadcastSpawnAll ==
  /\ bc.phase = "collected"
  /\ bc' = [bc EXCEPT !.phase = "spawned", !.live = bc.pool \cap sockets,
                      !.err = "nil"]
  /\ tasks' = bc.targets
  /\ UNCHANGED <<appVars, sessVars, sockets, adapterVars, sockRooms, closeVars,
                 bcResult>>

\* A Broadcast that looks at its targets' sessions first: if one of them is
\* closed or has a full channel it returns an error and sends nothing.
BroadcastSpawnChecked ==
  /\ bc.phase = "collected"
  /\ LET found == bc.targets \cap sockets
         fine == \A s \in found : ~closed[s] /\ Len(outgoing[s]) < QueueCap
     IN /\ bc' = [bc EXCEPT !.phase = "spawned", !.live = bc.pool \cap sockets,
                            !.err = IF fine THEN "nil" ELSE "send failed"]
        /\ tasks' = IF fine THEN found ELSE {}
  /\ UNCHANGED <<appVars, sessVars, sockets, adapterVars, sockRooms, closeVars,
                 bcResult>>

BroadcastSpawn ==
  /\ bc.phase = "collected"
  /\ bc' = [bc EXCEPT !.phase = "spawned", !.live = bc.pool \cap sockets,
                      !.err = "nil"]
  /\ tasks' = bc.targets \cap sockets
  /\ UNCHANGED <<appVars, sessVars, sockets, adapterVars, sockRooms, closeVars,
                 bcResult>>

\* go socket.session.Send(...)
BroadcastSend(s) ==
  /\ s \in tasks
  /\ tasks' = tasks \ {s}
  /\ Send(s, BroadcastPacket)
  /\ bcResult' = [bcResult EXCEPT ![s] = lastSend'[s]]
  /\ UNCHANGED <<restVars, sockets, adapterVars, sockRooms, closeVars, bc,
                 appVars>>

RoomsNext ==
  \/ \E s \in Sids :
       \/ NewSocket(s)
       \/ Register(s)
       \/ JoinOwn(s)
       \/ SendConnect(s)
       \/ AppJoin(s)
       \/ AppLeave(s)
       \/ Emit(s)
       \/ Disconnect(s)
       \/ CloseWrite(s)
       \/ CloseNotify(s)
       \/ HandleCloseLeave(s)
       \/ RemoveSocket(s)
       \/ RemoveSocketRooms(s)
       \/ BroadcastSend(s)
  \/ AdapterClose
  \/ BroadcastCollect
  \/ BroadcastSpawn

RoomsInit == StartedHandlers /\ FreshSessions /\ InitRooms /\ InitApp

RoomsSpec == RoomsInit /\ [][RoomsNext]_vars

(***************************************************************************)
(* Socket: acknowledgements.  EmitWithAck stores the callback under a new  *)
(* id before it sends the EVENT; the reader hands every MESSAGE to         *)
(* Socket.handleMessage once NewSocket has registered it, which dispatches *)
(* on the type of the decoded packet.                                      *)
(***************************************************************************)
\* Session.handleMessage finds the handler NewSocket registered.
CanDispatch(s) ==
  /\ CanRead(s)
  /\ httpPc[s] \in {"routed", "listed", "joined", "added"}
  /\ inbound[s] < MaxInbound

\* EmitWithAck: id := ackID.Add(1), ackHandlers.Store(id, ack), sendPacket.
EmitWithAck(s) ==
  /\ httpPc[s] = "added"
  /\ ackID[s] < MaxAcks
  /\ ackID' = [ackID EXCEPT ![s] = @ + 1]
  /\ ackHandlers' = [ackHandlers EXCEPT ![s] = @ \cup {ackID[s] + 1}]
  /\ Send(s, AckedEmitPacket(ackID[s] + 1))
  /\ UNCHANGED <<extVars, srvVars, restVars, roomVars, ackRuns, eventVars, inVars, onDisconnect,
                 discStarted>>

\* A handleAck that loads the callback and leaves it in the table.
HandleAckLoad(s, id, data) ==
  /\ CanDispatch(s)
  /\ inbound' = [inbound EXCEPT ![s] = @ + 1]
  /\ lastIn' = [lastIn EXCEPT ![s] =
                  SioPacket(PacketTypeAck, DefaultNamespace, id, data)]
  /\ IF id # NoId /\ id[1] \in ackHandlers[s]
       THEN ackRuns' = [ackRuns EXCEPT ![s] =
                          Append(@, [id |-> id[1], args |-> data])]
       ELSE UNCHANGED ackRuns
  /\ UNCHANGED <<extVars, srvVars, sessVars, roomVars, ackID, ackHandlers, eventVars,
                 onDisconnect, discStarted>>

\* handleAck: a packet without id is dropped; LoadAndDelete takes the
\* callback out of the table, if it is there, and the callback is started in
\* a task of its own with the packet's data as arguments.
HandleAck(s, id, data) ==
  /\ CanDispatch(s)
  /\ inbound' = [inbound EXCEPT ![s] = @ + 1]
  /\ lastIn' = [lastIn EXCEPT ![s] =
                  SioPacket(PacketTypeAck, DefaultNamespace, id, data)]
  /\ IF id # NoId /\ id[1] \in ackHandlers[s]
       THEN /\ ackHandlers' = [ackHandlers EXCEPT ![s] = @ \ {id[1]}]
            /\ ackRuns' = [ackRuns EXCEPT ![s] =
                             Append(@, [id |-> id[1], args |-> data])]
       ELSE UNCHANGED <<ackHandlers, ackRuns>>
  /\ UNCHANGED <<extVars, srvVars, sessVars, roomVars, ackID, eventVars, onDisconnect,
                 discStarted>>

(***************************************************************************)
(* Socket: event handlers.  handleEvent drops a packet whose data is not a *)
(* non-empty array headed by a name; the arguments are the rest of the     *)
(* array, followed by an ack callable if the packet has an id; every       *)
(* handler of the name, in the order of the list read under the lock, is   *)
(* started in a task of its own.                                           *)
(***************************************************************************)
HandlerIds == {"h1", "h2"}

\* The data arrays of the client's EVENT packets: the empty array, or a name
\* and arguments.
EventData == {<<>>} \cup {<<e>> \o a : e \in Events, a \in ArgLists}

\* On: append(s.handlers[event], handler)
On(s, event, h) ==
  /\ httpPc[s] = "added"
  /\ Len(handlers[s][event]) < MaxHandlers
  /\ handlers' = [handlers EXCEPT ![s][event] = Append(@, h)]
  /\ UNCHANGED <<extVars, srvVars, sessVars, roomVars, ackVars, started, ackFuncs, lastAck,
                 inVars, onDisconnect, discStarted>>

\* Off: delete(s.handlers, event)
Off(s, event) ==
  /\ httpPc[s] = "added"
  /\ handlers' = [handlers EXCEPT ![s][event] = <<>>]
  /\ UNCHANGED <<extVars, srvVars, sessVars, roomVars, ackVars, started, ackFuncs, lastAck,
                 inVars, onDisconnect, discStarted>>

\* A handleEvent that starts the handlers from the last registered to the
\* first.
TasksReversed(hs, args, id) ==
  [i \in 1..Len(hs) |->
     [handler |-> hs[Len(hs) + 1 - i], args |-> args, ack |-> id]]

\* The tasks handleEvent starts for the handlers hs: each gets the
\* arguments, and the ack callable bound to the packet's id if it has one.
Tasks(hs, args, id) ==
  [i \in 1..Len(hs) |-> [handler |-> hs[i], args |-> args, ack |-> id]]

\* handleEvent
HandleEvent(s, id, data) ==
  /\ CanDispatch(s)
  /\ inbound' = [inbound EXCEPT ![s] = @ + 1]
  /\ lastIn' = [lastIn EXCEPT ![s] =
                  SioPacket(PacketTypeEvent, DefaultNamespace, id, data)]
  /\ IF data = <<>>
       THEN UNCHANGED <<started, ackFuncs>>
       ELSE LET hs == handlers[s][Head(data)]
            IN /\ started' = [started EXCEPT ![s] = Tasks(hs, Tail(data), id)]
               /\ ackFuncs' = [ackFuncs EXCEPT ![s] =
                                 IF id # NoId /\ hs # <<>>
                                   THEN @ \cup {id[1]} ELSE @]
  /\ UNCHANGED <<extVars, srvVars, sessVars, roomVars, ackVars, handlers, lastAck, onDisconnect,
                 discStarted>>

\* An ack callable that sends its ACK with the id 0.
AckFuncNoId(s, n, args) ==
  /\ Send(s, AckPacket(DefaultNamespace, <<0>>, args))
  /\ lastAck' = [lastAck EXCEPT ![s] =
                   [id |-> <<n>>, args |-> args, result |-> lastSend'[s]]]

\* The ack callable of handleEvent: sendPacket of an ACK with the packet's
\* id, the socket's namespace and the arguments of the call as data; the
\* result of sendPacket is dropped.
AckFunc(s, n, args) ==
  /\ Send(s, AckPacket(DefaultNamespace, <<n>>, args))
  /\ lastAck' = [lastAck EXCEPT ![s] =
                   [id |-> <<n>>, args |-> args, result |-> lastSend'[s]]]

\* A handler calls the ack callable it was given.
CallAck(s, n, args) ==
  /\ n \in ackFuncs[s]
  /\ CopiesIn(AckPacket(DefaultNamespace, <<n>>, args), enqueuedSio[s])
       < MaxAppSends
  /\ AckFunc(s, n, args)
  /\ UNCHANGED <<extVars, srvVars, restVars, roomVars, ackVars, handlers, started, ackFuncs,
                 inVars, onDisconnect, discStarted>>

(***************************************************************************)
(* One socket from handleConnection on: with the acknowledgements it waits *)
(* for, to the end of its close path (AckSpec); with the handlers of its   *)
(* client's events, while it is open (EventSpec); and with the             *)
(* acknowledgements it sends, to the end of its close path (ReplySpec).    *)
(***************************************************************************)
AckNext ==
  \E s \in EioSids :
    \/ NewSocket(s)
    \/ Register(s)
    \/ JoinOwn(s)
    \/ SendConnect(s)
    \/ EmitWithAck(s)
    \/ \E id \in PacketIds, data \in ArgLists : HandleAck(s, id, data)
    \/ WriterWrite(s, TRUE)
    \/ Disconnect(s)
    \/ CloseWrite(s)
    \/ CloseNotify(s)
    \/ HandleCloseLeave(s)
    \/ RemoveSocket(s)
    \/ RemoveSocketRooms(s)

AckSpec == RoomsInit /\ [][AckNext]_vars

EventNext ==
  \E s \in EioSids :
    \/ NewSocket(s)
    \/ Register(s)
    \/ JoinOwn(s)
    \/ SendConnect(s)
    \/ \E e \in Events, h \in HandlerIds : On(s, e, h)
    \/ \E e \in Events : Off(s, e)
    \/ \E id \in {NoId, <<1>>}, data \in EventData : HandleEvent(s, id, data)

EventSpec == RoomsInit /\ [][EventNext]_vars

\* The application registers one handler, which calls the ack callables it
\* is given, while the writer is not scheduled.
ReplyNext ==
  \E s \in EioSids :
    \/ NewSocket(s)
    \/ Register(s)
    \/ JoinOwn(s)
    \/ SendConnect(s)
    \/ On(s, "e1", "h1")
    \/ \E id \in {NoId, <<0>>, <<1>>} : HandleEvent(s, id, <<"e1", "v1", "v2">>)
    \/ \E n \in {0, 1}, args \in ArgLists : CallAck(s, n, args)
    \/ Disconnect(s)
    \/ CloseWrite(s)
    \/ CloseNotify(s)
    \/ HandleCloseLeave(s)
    \/ RemoveSocket(s)
    \/ RemoveSocketRooms(s)

ReplySpec == RoomsInit /\ [][ReplyNext]_vars

(***************************************************************************)
(* One socket whose session may be closed at any time after Start (before, *)
(* during or after addSocket), whose handlers call Join whether the        *)
(* session is open or not, and a broadcast.                                *)
(***************************************************************************)
\* Socket.Join called by a handler task: nothing in Join looks at the
\* session's state.
HandlerJoin(s) ==
  /\ httpPc[s] = "added"
  /\ AdapterWritable
  /\ \E room \in Rooms : Join(s, room)
  /\ UNCHANGED <<sessVars, sockets, closeVars, bcVars, appVars>>

LateNext ==
  \/ \E s \in EioSids :
       \/ NewSocket(s)
       \/ Register(s)
       \/ JoinOwn(s)
       \/ SendConnect(s)
       \/ HandlerJoin(s)
       \/ ServerClose(s)
       \/ CloseWrite(s)
       \/ CloseNotify(s)
       \/ HandleCloseLeave(s)
       \/ RemoveSocket(s)
       \/ RemoveSocketRooms(s)
       \/ BroadcastSend(s)
  \/ BroadcastCollect
  \/ BroadcastSpawn

LateSpec == RoomsInit /\ [][LateNext]_vars

(***************************************************************************)
(* One session from Start on, with its reader, writer and timers, the      *)
(* connect routing that makes its socket (handleConnection, addSocket, the *)
(* connect handler) and every cause of a close: the client's CLOSE, a read *)
(* error, the ping timeout, Server.Close.                                  *)
(***************************************************************************)
\* Socket.Emit called by the connect handler, which addSocket calls after
\* it has sent the CONNECT packet.
ConnectEmit(s) ==
  /\ httpPc[s] = "added"
  /\ AppSend(s)

LifeNext ==
  \E s \in EioSids :
    \/ NewSocket(s)
    \/ Register(s)
    \/ JoinOwn(s)
    \/ SendConnect(s)
    \/ ConnectEmit(s)
    \/ PingFire(s)
    \/ PingArm(s)
    \/ TimeoutFire(s)
    \/ ReadPing(s)
    \/ ReadPong(s)
    \/ ReadClose(s)
    \/ ReadError(s, TRUE)
    \/ WriterWrite(s, TRUE)
    \/ WriterExit(s)
    \/ ServerClose(s)
    \/ CloseWrite(s)
    \/ CloseNotify(s)
    \/ HandleCloseLeave(s)
    \/ RemoveSocket(s)
    \/ RemoveSocketRooms(s)

LifeSpec == RoomsInit /\ [][LifeNext]_vars

(***************************************************************************)
(* One socket with its disconnect listeners, closed by the application     *)
(* (Socket.Disconnect) and by Server.Close, any number of times; a Close   *)
(* that has been entered runs to its end.                                  *)
(***************************************************************************)
ListenerIds == {"l1", "l2"}

DiscNext ==
  \E s \in EioSids :
    \/ NewSocket(s)
    \/ Register(s)
    \/ JoinOwn(s)
    \/ SendConnect(s)
    \/ \E l \in ListenerIds : OnDisconnect(s, l)
    \/ Disconnect(s)
    \/ ServerClose(s)
    \/ CloseWrite(s)
    \/ CloseNotify(s)
    \/ HandleCloseLeave(s)
    \/ RemoveSocket(s)
    \/ RemoveSocketRooms(s)

DiscSpec ==
  /\ RoomsInit
  /\ [][DiscNext]_vars
  /\ \A s \in EioSids :
       /\ WF_vars(CloseWrite(s))
       /\ WF_vars(CloseNotify(s))
       /\ WF_vars(HandleCloseLeave(s))
       /\ WF_vars(RemoveSocket(s))

(***************************************************************************)
(* Server.Of: the name "" stands for "/"; a lookup under the read lock     *)
(* returns the namespace if there is one; else, under the write lock, a    *)
(* second lookup, and NewNamespace and the store if it fails too.          *)
(***************************************************************************)
NamespaceName(arg) == IF arg = "" THEN "/" ELSE arg

\* Of, to the release of the read lock.
OfLookup(c, arg) ==
  /\ ofPc[c] # "missed"
  /\ ofArg' = [ofArg EXCEPT ![c] = arg]
  /\ IF NamespaceName(arg) \in DOMAIN namespaces
       THEN /\ ofPc' = [ofPc EXCEPT ![c] = "found"]
            /\ ofResult' = [ofResult EXCEPT ![c] = namespaces[NamespaceName(arg)]]
       ELSE /\ ofPc' = [ofPc EXCEPT ![c] = "missed"]
            /\ ofResult' = [ofResult EXCEPT ![c] = NoInstance]
  /\ UNCHANGED <<sessVars, roomVars, sockVars, extVars, scVars, namespaces, nsCreated>>

\* The directory with a new instance stored under the name.
Store(name) ==
  [k \in DOMAIN namespaces \cup {name} |->
     IF k = name THEN Instance(name, nsCreated[name] + 1) ELSE namespaces[k]]

\* An Of without the second lookup.
OfCreateUnchecked(c) ==
  /\ ofPc[c] = "missed"
  /\ LET name == NamespaceName(ofArg[c])
     IN /\ namespaces' = Store(name)
        /\ nsCreated' = [nsCreated EXCEPT ![name] = @ + 1]
        /\ ofPc' = [ofPc EXCEPT ![c] = "created"]
        /\ ofResult' = [ofResult EXCEPT ![c] = namespaces'[name]]
  /\ UNCHANGED <<sessVars, roomVars, sockVars, extVars, scVars, ofArg>>

\* Of, under the write lock.
OfCreate(c) ==
  /\ ofPc[c] = "missed"
  /\ LET name == NamespaceName(ofArg[c])
     IN IF name \in DOMAIN namespaces
          THEN /\ ofPc' = [ofPc EXCEPT ![c] = "rechecked"]
               /\ ofResult' = [ofResult EXCEPT ![c] = namespaces[name]]
               /\ UNCHANGED <<namespaces, nsCreated>>
          ELSE /\ namespaces' = Store(name)
               /\ nsCreated' = [nsCreated EXCEPT ![name] = @ + 1]
               /\ ofPc' = [ofPc EXCEPT ![c] = "created"]
               /\ ofResult' = [ofResult EXCEPT ![c] = namespaces'[name]]
  /\ UNCHANGED <<sessVars, roomVars, sockVars, extVars, scVars, ofArg>>

(***************************************************************************)
(* Server.Close: engineio.Server.Close calls Close("server shutdown") on   *)
(* the stored sessions, one after the other; a call returns when closeOnce *)
(* has run to its end, the close callback included, whichever task runs    *)
(* it.  Then the adapter of every namespace is closed, and Close returns.  *)
(***************************************************************************)
\* s.eio.Close(): sessions.Range begins.
SrvClose ==
  /\ scPc = "idle"
  /\ scPc' = "sessions"
  /\ scLeft' = {s \in Sids : Started(s)}
  /\ UNCHANGED <<sessVars, roomVars, sockVars, extVars, ofVars, scCur>>

\* session.Close("server shutdown") of the Range
SrvCloseCall(s) ==
  /\ scPc = "sessions"
  /\ scCur = NoSid
  /\ s \in scLeft
  /\ scCur' = s
  /\ Close(s, "server shutdown", pingTimeout[s])
  /\ UNCHANGED <<roomVars, sockVars, extVars, ofVars, scPc, scLeft, httpPc, onClose,
                 onCloseCalls, closeFrames, connOpen, chanVars, written,
                 pingsWritten, readerPc, writerPc, pingOrphans, timeoutOrphans,
                 pingCb, pingsHandled, pongsHandled, strayPong>>

\* closeOnce.Do returns: the body has run, with the callback it called.
SrvCloseWait ==
  /\ scPc = "sessions"
  /\ scCur # NoSid
  /\ closePc[scCur] = "done"
  /\ hcPc[scCur] \in {"idle", "done"}
  /\ scLeft' = scLeft \ {scCur}
  /\ scCur' = NoSid
  /\ UNCHANGED <<sessVars, roomVars, sockVars, extVars, ofVars, scPc>>

\* for _, ns := range s.namespaces { ns.adapter.Close() }
SrvCloseAdapters ==
  /\ scPc = "sessions"
  /\ scLeft = {}
  /\ AdapterWritable
  /\ scPc' = "adapters"
  /\ rooms' = EmptyMap
  /\ socketRooms' = EmptyMap
  /\ UNCHANGED <<sessVars, sockets, sockRooms, closeVars, bcVars, sockVars, extVars,
                 ofVars, scLeft, scCur>>

\* return nil
SrvCloseReturn ==
  /\ scPc = "adapters"
  /\ scPc' = "returned"
  /\ UNCHANGED <<sessVars, roomVars, sockVars, extVars, ofVars, scLeft, scCur>>

\* Tasks that refer to namespaces while the server is shut down.
NsNext ==
  \/ \E c \in Callers :
       \/ \E arg \in NsNames : OfLookup(c, arg)
       \/ OfCreate(c)
  \/ \E s \in Sids :
       \/ SrvCloseCall(s)
       \/ CloseWrite(s)
       \/ CloseNotify(s)
  \/ SrvClose
  \/ SrvCloseWait
  \/ SrvCloseAdapters
  \/ SrvCloseReturn

NsSpec == RoomsInit /\ [][NsNext]_vars

\* Sessions that are being routed into the namespace, or have been, while
\* the application disconnects sockets and shuts the server down.
ShutdownNext ==
  \/ \E s \in Sids :
       \/ NewSocket(s)
       \/ Register(s)
       \/ JoinOwn(s)
       \/ SendConnect(s)
       \/ Disconnect(s)
       \/ SrvCloseCall(s)
       \/ CloseWrite(s)
       \/ CloseNotify(s)
       \/ HandleCloseLeave(s)
       \/ RemoveSocket(s)
       \/ RemoveSocketRooms(s)
  \/ SrvClose
  \/ SrvCloseWait
  \/ SrvCloseAdapters
  \/ SrvCloseReturn

ShutdownSpec == RoomsInit /\ [][ShutdownNext]_vars

(***************************************************************************)
(* The Socket.IO codec (unnamed/part_001).  A text is a sequence of        *)
(* characters, a character a string of length one.                         *)
(***************************************************************************)
Digits == <<"0", "1", "2", "3", "4", "5", "6", "7", "8", "9">>
IsDigit(c) == \E i \in 1..10 : Digits[i] = c
DigitValue(c) == (CHOOSE i \in 1..10 : Digits[i] = c) - 1

\* The largest ack id of the codec's contract, 2^31-1.
MaxInt32 == 2147483647
\* What stands for the value of a run of digits that is above 2^31-1 (an int
\* has 64 bits: strconv.Atoi returns the value, which is no id of a packet
\* that was encoded).
Beyond == -1

\* strconv.Itoa
RECURSIVE ItoaNat(_)
ItoaNat(n) ==
  IF n < 10 THEN <<Digits[n + 1]>>
  ELSE ItoaNat(n \div 10) \o <<Digits[(n % 10) + 1]>>
Itoa(n) == IF n < 0 THEN <<"-">> \o ItoaNat(0 - n) ELSE ItoaNat(n)

\* strconv.Atoi of a run of digits
RECURSIVE Atoi(_)
Atoi(ds) ==
  IF ds = <<>> THEN 0
  ELSE LET hi == Atoi(SubSeq(ds, 1, Len(ds) - 1))
           d == DigitValue(ds[Len(ds)])
       IN IF hi = Beyond \/ hi > (MaxInt32 - d) \div 10 THEN Beyond
          ELSE hi * 10 + d

\* The values of Packet.Data: nil, or what encoding/json makes of a JSON
\* text when it decodes into an interface{}: a number (float64: its sign,
\* its whole part and the digits of its fraction), a string, a bool, a
\* []interface{}, a map (of one key here).
Nil == [k |-> "nil", v |-> <<>>]
JFrac(neg, whole, frac) ==
  [k |-> "number", v |-> [neg |-> neg, whole |-> whole, frac |-> frac]]
JNum(n) == JFrac(n < 0, IF n < 0 THEN 0 - n ELSE n, <<>>)
JStr(cs) == [k |-> "string", v |-> cs]
JBool(b) == [k |-> "bool", v |-> b]
JArr(vs) == [k |-> "array", v |-> vs]
JObj(key, val) == [k |-> "object", v |-> <<key, val>>]

\* json.Marshal
RECURSIVE Marshal(_), MarshalElems(_)
Marshal(j) ==
  CASE j.k = "number" ->
         (IF j.v.neg THEN <<"-">> ELSE <<>>) \o Itoa(j.v.whole)
           \o (IF j.v.frac # <<>> THEN <<".">> \o j.v.frac ELSE <<>>)
    [] j.k = "string" -> <<"\"">> \o j.v \o <<"\"">>
    [] j.k = "bool" -> IF j.v THEN <<"t", "r", "u", "e">>
                       ELSE <<"f", "a", "l", "s", "e">>
    [] j.k = "array" -> <<"[">> \o MarshalElems(j.v) \o <<"]">>
    [] j.k = "object" ->
         <<"{", "\"">> \o j.v[1] \o <<"\"", ":">> \o Marshal(j.v[2]) \o <<"}">>
    [] j.k = "nil" -> <<"n", "u", "l", "l">>
MarshalElems(vs) ==
  IF vs = <<>> THEN <<>>
  ELSE IF Len(vs) = 1 THEN Marshal(vs[1])
  ELSE Marshal(vs[1]) \o <<",">> \o MarshalElems(Tail(vs))

\* The first place at or after i where the text has character c, or 0.
IndexByte(t, i, c) ==
  IF \E j \in i..Len(t) : t[j] = c
  THEN CHOOSE j \in i..Len(t) : t[j] = c /\ \A h \in i..(j - 1) : t[h] # c
  ELSE 0

\* The first place at or after i where the text has no digit.
DigitsEnd(t, i) ==
  CHOOSE j \in i..(Len(t) + 1) :
    /\ \A h \in i..(j - 1) : IsDigit(t[h])
    /\ j = Len(t) + 1 \/ ~IsDigit(t[j])

\* json.Unmarshal: a value of the grammar at place i of the text, and the
\* place after it.  (The texts here have no white space, no escapes, no
\* fractions and no exponents.)
ParseFail == [ok |-> FALSE, v |-> Nil, next |-> 0]
Parsed(v, next) == [ok |-> TRUE, v |-> v, next |-> next]

HasAt(t, i, w) ==
  /\ i + Len(w) - 1 <= Len(t)
  /\ SubSeq(t, i, i + Len(w) - 1) = w

ParseString(t, i) ==
  LET close == IndexByte(t, i + 1, "\"")
  IN IF i > Len(t) \/ t[i] # "\"" \/ close = 0 THEN ParseFail
     ELSE Parsed(JStr(SubSeq(t, i + 1, close - 1)), close + 1)

ParseNumber(t, i) ==
  LET neg == t[i] = "-"
      from == IF neg THEN i + 1 ELSE i
      end == IF from <= Len(t) /\ t[from] = "0" THEN from + 1
             ELSE DigitsEnd(t, from)
      point == HasAt(t, end, <<".">>)
      fracEnd == IF point THEN DigitsEnd(t, end + 1) ELSE end
      frac == IF point THEN SubSeq(t, end + 1, fracEnd - 1) ELSE <<>>
  IN IF end = from \/ (point /\ frac = <<>>) THEN ParseFail
     ELSE Parsed(JFrac(neg, Atoi(SubSeq(t, from, end - 1)), frac), fracEnd)

RECURSIVE ParseValue(_, _), ParseElems(_, _, _)
ParseValue(t, i) ==
  IF i > Len(t) THEN ParseFail
  ELSE IF t[i] = "\"" THEN ParseString(t, i)
  ELSE IF t[i] = "-" \/ IsDigit(t[i]) THEN ParseNumber(t, i)
  ELSE IF HasAt(t, i, <<"t", "r", "u", "e">>) THEN Parsed(JBool(TRUE), i + 4)
  ELSE IF HasAt(t, i, <<"f", "a", "l", "s", "e">>)
       THEN Parsed(JBool(FALSE), i + 5)
  ELSE IF HasAt(t, i, <<"n", "u", "l", "l">>) THEN Parsed(Nil, i + 4)
  ELSE IF t[i] = "[" THEN
         IF HasAt(t, i, <<"[", "]">>) THEN Parsed(JArr(<<>>), i + 2)
         ELSE ParseElems(t, i + 1, <<>>)
  ELSE IF t[i] = "{" THEN
         LET key == ParseString(t, i + 1)
             val == ParseValue(t, key.next + 1)
         IN IF ~key.ok \/ ~HasAt(t, key.next, <<":">>) THEN ParseFail
            ELSE IF ~val.ok \/ ~HasAt(t, val.next, <<"}">>) THEN ParseFail
            ELSE Parsed(JObj(key.v.v, val.v), val.next + 1)
  ELSE ParseFail
ParseElems(t, i, acc) ==
  LET r == ParseValue(t, i)
  IN IF ~r.ok THEN ParseFail
     ELSE IF HasAt(t, r.next, <<",">>)
          THEN ParseElems(t, r.next + 1, Append(acc, r.v))
     ELSE IF HasAt(t, r.next, <<"]">>)
          THEN Parsed(JArr(Append(acc, r.v)), r.next + 1)
     ELSE ParseFail

Unmarshal(t) ==
  LET r == ParseValue(t, 1)
  IN IF r.ok /\ r.next = Len(t) + 1 THEN r ELSE ParseFail

\* The packets of the codec: the type is the number 0..6, the namespace a
\* text, the id nil or a number, the data nil or a JSON value.
SioTypes == 0..6
NspDefault == <<"/">>

\* What DecodePacket returns: a packet, or an error.
SioDecodeError == [ok |-> FALSE, packet |-> SioPacket(0, <<>>, NoId, Nil)]
SioDecoded(type, nsp, id, data) ==
  [ok |-> TRUE, packet |-> SioPacket(type, nsp, id, data)]

\* Packet.Encode on the characters.
SioEncodeNoComma(p) ==
  Itoa(p.type)
    \o (IF p.nsp # <<>> /\ p.nsp # NspDefault THEN p.nsp ELSE <<>>)
    \o (IF p.id # NoId THEN Itoa(p.id[1]) ELSE <<>>)
    \o (IF p.data.k # "nil" THEN Marshal(p.data) ELSE <<>>)

SioEncode(p) ==
  Itoa(p.type)
    \o (IF p.nsp # <<>> /\ p.nsp # NspDefault THEN p.nsp \o <<",">> ELSE <<>>)
    \o (IF p.id # NoId THEN Itoa(p.id[1]) ELSE <<>>)
    \o (IF p.data.k # "nil" THEN Marshal(p.data) ELSE <<>>)

\* DecodePacket, left to right: the type, the namespace up to the comma (or
\* to the end), a run of digits as the ack id, the rest as JSON.
SioDecodePacket(t) ==
  IF Len(t) = 0 THEN SioDecodeError
  ELSE IF ~(IsDigit(t[1]) /\ DigitValue(t[1]) <= 6) THEN SioDecodeError
  ELSE
    LET type == DigitValue(t[1])
        hasNsp == HasAt(t, 2, <<"/">>)
        comma == IndexByte(t, 2, ",")
        nsp == IF ~hasNsp THEN NspDefault
               ELSE IF comma = 0 THEN SubSeq(t, 2, Len(t))
               ELSE SubSeq(t, 2, comma - 1)
        pos == IF ~hasNsp THEN 2
               ELSE IF comma = 0 THEN Len(t) + 1
               ELSE comma + 1
        hasId == pos <= Len(t) /\ IsDigit(t[pos])
        end == IF hasId THEN DigitsEnd(t, pos) ELSE pos
        id == IF hasId THEN <<Atoi(SubSeq(t, pos, end - 1))>> ELSE NoId
        r == Unmarshal(SubSeq(t, end, Len(t)))
    IN IF end > Len(t) THEN SioDecoded(type, nsp, id, Nil)
       ELSE IF ~r.ok THEN SioDecodeError
       ELSE SioDecoded(type, nsp, id, r.v)

\* The packets the codec is given: every type, the namespaces "/", "/a" and
\* "/a/b", no id and the ids 0, 1 and 2^31-1, no data and JSON values of
\* every kind.
Namespaces == {NspDefault, <<"/", "a">>, <<"/", "a", "/", "b">>}
CodecIds == {NoId, <<0>>, <<1>>, <<MaxInt32>>}
JsonValues ==
  {JNum(0), JNum(7), JNum(0 - 7), JFrac(FALSE, 1, <<"5">>), JFrac(TRUE, 1, <<"5">>),
   JStr(<<>>), JStr(<<"1">>), JStr(<<"/", "a", ",">>),
   JBool(TRUE), JBool(FALSE),
   JArr(<<>>), JArr(<<JNum(5)>>),
   JArr(<<JStr(<<"e">>), JNum(1), JArr(<<JBool(TRUE)>>)>>),
   JObj(<<"a">>, JNum(1)), JObj(<<"a">>, JArr(<<JStr(<<",">>)>>))}
SioInputs ==
  {SioPacket(type, nsp, id, data) :
     type \in SioTypes, nsp \in Namespaces, id \in CodecIds,
     data \in {Nil} \cup JsonValues}

\* p.Encode()
SioEncodeCall ==
  /\ codec.pc = "sio"
  /\ codec' = [codec EXCEPT !.pc = "sio encoded", !.text = SioEncode(codec.packet)]
  /\ UNCHANGED <<sessVars, roomVars, sockVars, srvVars, order, procs>>

\* DecodePacket(text)
SioDecodeCall ==
  /\ codec.pc = "sio encoded"
  /\ codec' = [codec EXCEPT !.pc = "sio decoded",
                            !.result = SioDecodePacket(codec.text)]
  /\ UNCHANGED <<sessVars, roomVars, sockVars, srvVars, order, procs>>

SioCodecInit ==
  /\ InitSessions /\ InitRooms /\ InitSockets /\ InitServer /\ InitOrder
  /\ InitProcs
  /\ codec \in {[pc |-> "sio", packet |-> p, text |-> <<>>,
                 result |-> SioDecodeError] : p \in SioInputs}

SioCodecNext == SioEncodeCall \/ SioDecodeCall

SioCodecSpec == SioCodecInit /\ [][SioCodecNext]_vars

(***************************************************************************)
(* The Engine.IO codec (engineio/packet.go).  A byte is a number 0..255.   *)
(***************************************************************************)
\* Bytes a payload has at most.
MaxPayload == 2

\* The bytes '0' and '6'
ByteZero == 48
ByteSix == 54

\* The bytes of the payloads and of the frames: 0, '/', '0', '6', '7', 255.
Bytes == {0, 47, ByteZero, ByteSix, 55, 255}
BytesUpTo(n) == UNION {[1..k -> Bytes] : k \in 0..n}

\* The types Open .. Noop
EioTypes == 0..6

\* An Engine.IO packet: its type and its payload (a nil Data is the payload
\* without bytes).
EioPacket(type, data) == [type |-> type, data |-> data]

\* Packet.Encode: byte('0' + p.Type), then the payload.
EioEncode(p) == <<(ByteZero + p.type) % 256>> \o p.data

\* What DecodePacket returns: a packet, or an error.
EioDecodeError == [ok |-> FALSE, packet |-> EioPacket(0, <<>>)]

\* A DecodePacket that takes the byte '7' for a type as well.
EioDecodePacketToSeven(data) ==
  IF Len(data) = 0 THEN EioDecodeError
  ELSE IF data[1] < ByteZero \/ data[1] > ByteSix + 1 THEN EioDecodeError
  ELSE [ok |-> TRUE,
        packet |-> EioPacket(data[1] - ByteZero,
                             IF Len(data) > 1 THEN Tail(data) ELSE <<>>)]

\* DecodePacket
EioDecodePacket(data) ==
  IF Len(data) = 0 THEN EioDecodeError
  ELSE IF data[1] < ByteZero \/ data[1] > ByteSix THEN EioDecodeError
  ELSE [ok |-> TRUE,
        packet |-> EioPacket(data[1] - ByteZero,
                             IF Len(data) > 1 THEN Tail(data) ELSE <<>>)]

\* p.Encode()
EioEncodeCall ==
  /\ codec.pc = "eio"
  /\ codec' = [codec EXCEPT !.pc = "eio encoded", !.text = EioEncode(codec.packet)]
  /\ UNCHANGED <<sessVars, roomVars, sockVars, srvVars, order, procs>>

\* DecodePacket(text), of the encoding of a packet or of a frame of the
\* client
EioDecodeCall ==
  /\ codec.pc \in {"eio encoded", "eio frame"}
  /\ codec' = [codec EXCEPT !.pc = "eio decoded",
                            !.result = EioDecodePacket(codec.text)]
  /\ UNCHANGED <<sessVars, roomVars, sockVars, srvVars, order, procs>>

\* The codec is given a packet of any type with any payload, or a frame of
\* any bytes.
EioCodecInit ==
  /\ InitSessions /\ InitRooms /\ InitSockets /\ InitServer /\ InitOrder
  /\ InitProcs
  /\ codec \in
       {[pc |-> "eio", given |-> "packet", packet |-> EioPacket(type, data),
         text |-> <<>>, result |-> EioDecodeError] :
          type \in EioTypes, data \in BytesUpTo(MaxPayload)}
       \cup
       {[pc |-> "eio frame", given |-> "frame", packet |-> EioPacket(0, <<>>),
         text |-> frame, result |-> EioDecodeError] :
          frame \in BytesUpTo(MaxPayload + 1)}

EioCodecNext == EioEncodeCall \/ EioDecodeCall

EioCodecSpec == EioCodecInit /\ [][EioCodecNext]_vars

(***************************************************************************)
(* The reader and the frames of the client: readLoop decodes the frame     *)
(* (Engine.IO) and goes on to the next frame if that fails; a MESSAGE goes *)
(* to Socket.handleMessage once NewSocket has registered it, which decodes *)
(* the payload (Socket.IO), returns if that fails, and dispatches an EVENT *)
(* to handleEvent, an ACK to handleAck and a DISCONNECT to Disconnect.     *)
(***************************************************************************)
\* The characters of the frames and their bytes.
Ascii ==
  <<<<"\"", 34>>, <<",", 44>>, <<"/", 47>>, <<"0", 48>>, <<"1", 49>>,
    <<"2", 50>>, <<"3", 51>>, <<"4", 52>>, <<"5", 53>>, <<"6", 54>>,
    <<"7", 55>>, <<"8", 56>>, <<"9", 57>>, <<":", 58>>, <<"[", 91>>,
    <<"]", 93>>, <<"e", 101>>, <<"x", 120>>, <<"{", 123>>, <<"}", 125>>>>
Code(c) == (CHOOSE i \in 1..Len(Ascii) : Ascii[i][1] = c)
Codes(text) == [i \in 1..Len(text) |-> Ascii[Code(text[i])][2]]

\* string(data): the characters of the bytes ("?" for a byte that is none of
\* the above).
Char(b) ==
  IF \E i \in 1..Len(Ascii) : Ascii[i][2] = b
  THEN Ascii[CHOOSE i \in 1..Len(Ascii) : Ascii[i][2] = b][1]
  ELSE "?"
Text(data) == [i \in 1..Len(data) |-> Char(data[i])]

\* The Engine.IO types the reader has a case for.
EioClose == 1
EioPing == 2
EioPong == 3
EioMessage == 4

\* The Socket.IO types handleMessage has a case for.
SioDisconnect == 1
SioEvent == 2
SioAck == 3

\* The frames of the client: frames that are no Engine.IO packet, ...
NoiseEio == {Codes(<<>>), Codes(<<"x">>), Codes(<<"9", "2">>)}
\* ... MESSAGE frames whose payload is no Socket.IO packet, ...
NoiseSio ==
  {Codes(<<"4">>), Codes(<<"4", "9">>), Codes(<<"4", "2", "[">>),
   Codes(<<"4", "2", "/", "x", ",", "1", "x">>)}
\* ... EVENT packets without data, or whose data is no array, an empty array
\* or an array that does not begin with a string, ...
NoiseEvent ==
  {Codes(<<"4", "2">>), Codes(<<"4", "2", "1">>),
   Codes(<<"4", "2", "[", "]">>), Codes(<<"4", "2", "[", "1", "]">>),
   Codes(<<"4", "2", "1", "\"", "e", "1", "\"">>),
   Codes(<<"4", "2", "{", "\"", "e", "1", "\"", ":", "1", "}">>)}
\* ... and an EVENT "e1" without and with an ack id, an ACK of the id 1, and
\* a NOOP.
EventFrame == Codes(<<"4", "2", "[", "\"", "e", "1", "\"", "]">>)
AckedEventFrame ==
  Codes(<<"4", "2", "1", "[", "\"", "e", "1", "\"", ",", "7", "]">>)
AckFrame == Codes(<<"4", "3", "1", "[", "7", "]">>)
NoopFrame == Codes(<<"6">>)
Frames ==
  NoiseEio \cup NoiseSio \cup NoiseEvent
    \cup {EventFrame, AckedEventFrame, AckFrame, NoopFrame}

\* The names of the events, as characters.
EventChars(e) == IF e = "e1" THEN <<"e", "1">> ELSE <<"e", "2">>

\* handleEvent: s.handlers[event]
HandlersOf(s, name) ==
  IF \E e \in Events : EventChars(e) = name
  THEN handlers[s][CHOOSE e \in Events : EventChars(e) = name]
  ELSE <<>>

\* handleEvent: the data is a []interface{} that is not empty and begins
\* with a string.
IsEventData(data) ==
  /\ data.k = "array"
  /\ Len(data.v) > 0
  /\ data.v[1].k = "string"

\* A reader that ends its loop at a frame it cannot decode (and so runs the
\* deferred Close).
DropFrameReturn(s) ==
  /\ readerPc' = [readerPc EXCEPT ![s] = "done"]
  /\ Close(s, "read error", pingTimeout[s])

\* readLoop: if err != nil { continue }
DropFrame(s) == UNCHANGED <<readerPc, latchVars>>

\* Nothing has been read.
NoFrame == <<0>>

\* One turn of readLoop for a frame that is not a PING, a PONG or a CLOSE
\* packet (for these see ReadPing, ReadPong, ReadClose).
ReadFrame(s, frame) ==
  LET e == EioDecodePacket(frame)
      toSocket == /\ e.ok
                  /\ e.packet.type = EioMessage
                  /\ httpPc[s] \in {"routed", "listed", "joined", "added"}
      m == SioDecodePacket(Text(e.packet.data))
      p == m.packet
      isEvent == toSocket /\ m.ok /\ p.type = SioEvent /\ IsEventData(p.data)
      isAck == /\ toSocket /\ m.ok /\ p.type = SioAck
               /\ p.id # NoId /\ p.id[1] \in ackHandlers[s]
      isDisconnect == toSocket /\ m.ok /\ p.type = SioDisconnect
  IN /\ CanRead(s)
     /\ inbound[s] < MaxInbound
     /\ ~(e.ok /\ e.packet.type \in {EioClose, EioPing, EioPong})
     /\ inbound' = [inbound EXCEPT ![s] = @ + 1]
     /\ codec' = [pc |-> "read", sid |-> s, frame |-> frame,
                  before |-> IF codec.pc = "read" THEN codec.frame ELSE NoFrame]
     /\ lastIn' = [lastIn EXCEPT ![s] = IF toSocket /\ m.ok THEN p ELSE @]
     /\ IF ~e.ok THEN DropFrame(s)
        ELSE IF isDisconnect
          THEN /\ Close(s, "server disconnect", pingTimeout[s])
               /\ UNCHANGED readerPc
        ELSE UNCHANGED <<readerPc, latchVars>>
     /\ IF isEvent
          THEN LET hs == HandlersOf(s, p.data.v[1].v)
               IN /\ started' = [started EXCEPT ![s] =
                                   Tasks(hs, Tail(p.data.v), p.id)]
                  /\ ackFuncs' = [ackFuncs EXCEPT ![s] =
                                    IF p.id # NoId /\ hs # <<>>
                                      THEN @ \cup {p.id[1]} ELSE @]
          ELSE UNCHANGED <<started, ackFuncs>>
     /\ IF isAck
          THEN /\ ackHandlers' = [ackHandlers EXCEPT ![s] = @ \ {p.id[1]}]
               /\ ackRuns' = [ackRuns EXCEPT ![s] =
                                Append(@, [id |-> p.id[1],
                                           args |-> IF p.data.k = "array"
                                                      THEN p.data.v ELSE <<>>])]
          ELSE UNCHANGED <<ackHandlers, ackRuns>>
     /\ UNCHANGED <<roomVars, srvVars, order, procs, ackID, handlers, lastAck,
                    onDisconnect, discStarted, chanVars, httpPc, onClose, onCloseCalls,
                    closeFrames, connOpen, written, pingsWritten, writerPc,
                    pingOrphans, timeoutOrphans, pingCb, pingsHandled,
                    pongsHandled, strayPong>>

\* One socket from handleConnection on, with a handler of "e1", the
\* acknowledgements it waits for, and whatever frames its client sends.
NoiseInit ==
  /\ StartedHandlers /\ FreshSessions /\ InitRooms /\ InitSockets /\ InitServer
  /\ InitOrder /\ InitProcs
  /\ codec = [pc |-> "read", sid |-> NoSid, frame |-> NoFrame, before |-> NoFrame]

NoiseNext ==
  \E s \in EioSids :
    \/ NewSocket(s)
    \/ Register(s)
    \/ JoinOwn(s)
    \/ SendConnect(s)
    \/ On(s, "e1", "h1")
    \/ EmitWithAck(s)
    \/ \E frame \in Frames : ReadFrame(s, frame)

NoiseSpec == NoiseInit /\ [][NoiseNext]_vars

(***************************************************************************)
(* One socket from handleConnection on, closed by the application          *)
(* (Socket.Disconnect), by a DISCONNECT packet of its client, which the    *)
(* reader hands to handleMessage as soon as NewSocket has registered it,   *)
(* and by Server.Close.                                                    *)
(***************************************************************************)
\* The MESSAGE frame of a Socket.IO DISCONNECT packet: "41".
DisconnectFrame == Codes(<<"4", "1">>)

DisconnectNext ==
  \E s \in EioSids :
    \/ NewSocket(s)
    \/ Register(s)
    \/ JoinOwn(s)
    \/ SendConnect(s)
    \/ \E l \in ListenerIds : OnDisconnect(s, l)
    \/ Disconnect(s)
    \/ ReadFrame(s, DisconnectFrame)
    \/ ServerClose(s)
    \/ CloseWrite(s)
    \/ CloseNotify(s)
    \/ HandleCloseLeave(s)
    \/ RemoveSocket(s)
    \/ RemoveSocketRooms(s)

DisconnectSpec == RoomsInit /\ [][DisconnectNext]_vars

(***************************************************************************)
(* Socket.handleClose, statement by statement after the Leave calls: the   *)
(* listeners are started, and then removeSocket deletes the socket from    *)
(* the directory.  A listener runs in a task of its own and calls Rooms(), *)
(* as the listener of the example does.  codec notes, for every socket,    *)
(* the rooms it is in when its session closes.                             *)
(***************************************************************************)
\* The rooms the sockets were in when their sessions closed, as noted.
ClosingRooms(s) == IF codec.pc = "closed" THEN codec.rooms[s] ELSE {}

\* Socket.Disconnect by the application; the first Close of the session
\* notes the socket's rooms.
DisconnectNoted(s) ==
  /\ httpPc[s] = "added"
  /\ Close(s, "server disconnect", pingTimeout[s])
  /\ codec' = IF closePc[s] = "idle"
                THEN [pc |-> "closed",
                      rooms |-> [x \in Sids |->
                                   IF x = s THEN sockRooms[s] ELSE ClosingRooms(x)]]
                ELSE codec
  /\ UNCHANGED <<roomVars, sockVars, srvVars, order, procs, httpPc, onClose,
                 onCloseCalls, closeFrames, connOpen, chanVars, written,
                 pingsWritten, readerPc, writerPc, pingOrphans, timeoutOrphans,
                 pingCb, pingsHandled, pongsHandled, strayPong>>

\* A handleClose that starts the listeners without the Leave calls.
StartListenersFirst(s) ==
  /\ hcPc[s] = "leave"
  /\ hcPc' = [hcPc EXCEPT ![s] = "listeners"]
  /\ discStarted' = [discStarted EXCEPT ![s] =
                       @ \o DisconnectTasks(onDisconnect[s], closeReason[s])]
  /\ UNCHANGED <<extVars, srvVars, sessVars, sockets, adapterVars, sockRooms,
                 hcRooms, bcVars, ackVars, eventVars, inVars, onDisconnect>>

\* handlers := s.onDisconnect; for _, handler := range handlers { go handler(reason) }
StartListeners(s) ==
  /\ hcPc[s] = "leave"
  /\ hcRooms[s] = {}
  /\ hcPc' = [hcPc EXCEPT ![s] = "listeners"]
  /\ discStarted' = [discStarted EXCEPT ![s] =
                       @ \o DisconnectTasks(onDisconnect[s], closeReason[s])]
  /\ UNCHANGED <<extVars, srvVars, sessVars, sockets, adapterVars, sockRooms,
                 hcRooms, bcVars, ackVars, eventVars, inVars, onDisconnect>>

\* s.namespace.removeSocket(s.id), first half: delete(n.sockets, id)
DeleteSocket(s) ==
  /\ hcPc[s] = "listeners"
  /\ hcPc' = [hcPc EXCEPT ![s] = "remove"]
  /\ sockets' = sockets \ {s}
  /\ UNCHANGED <<sessVars, adapterVars, sockRooms, hcRooms, bcVars, appVars>>

\* The listeners of s that are running in task c or another.
ListenersRunning(s) ==
  Cardinality({c \in Callers : procs[c].op = "Rooms" /\ procs[c].sid = s})

\* A started listener of s, in the task c, calls socket.Rooms().
ListenerRooms(s, c) ==
  /\ procs[c] = NoCall
  /\ ListenersRunning(s) < Len(discStarted[s])
  /\ procs' = [procs EXCEPT ![c] =
                 [op |-> "Rooms", sid |-> s, room |-> "", rooms |-> sockRooms[s]]]
  /\ UNCHANGED <<sessVars, roomVars, sockVars, srvVars, codec, order>>

ListenerNext ==
  \E s \in EioSids :
    \/ NewSocket(s)
    \/ Register(s)
    \/ JoinOwn(s)
    \/ SendConnect(s)
    \/ AppJoin(s)
    \/ AppLeave(s)
    \/ \E l \in ListenerIds : OnDisconnect(s, l)
    \/ DisconnectNoted(s)
    \/ CloseWrite(s)
    \/ CloseNotify(s)
    \/ HandleCloseLeave(s)
    \/ StartListeners(s)
    \/ DeleteSocket(s)
    \/ RemoveSocketRooms(s)
    \/ \E c \in Callers : ListenerRooms(s, c)

ListenerSpec == RoomsInit /\ [][ListenerNext]_vars

(***************************************************************************)
(* Socket.EmitWithAck, statement by statement, called by the tasks of the  *)
(* application on one socket: the atomic increment, the Store in the table *)
(* and sendPacket.  The client acknowledges, once, an EVENT that has been   *)
(* enqueued for it.                                                        *)
(***************************************************************************)
\* The call of EmitWithAck a task is in, before the statement pc with the
\* id it has got.
AckCall(s, pc, id) ==
  [op |-> "EmitWithAck", sid |-> s, room |-> "", pc |-> pc, id |-> id]

\* The tasks that are in an EmitWithAck call on s.
InEmitWithAck(s) ==
  {c \in Callers : procs[c].op = "EmitWithAck" /\ procs[c].sid = s}

\* An increment that is a load and a store: the store of a task that runs
\* while another task is in the call is lost.
AckAddLost(s, c) ==
  /\ httpPc[s] = "added"
  /\ procs[c] = NoCall
  /\ ackID[s] < MaxAcks
  /\ ackID' = [ackID EXCEPT ![s] = IF InEmitWithAck(s) = {} THEN @ + 1 ELSE @]
  /\ procs' = [procs EXCEPT ![c] = AckCall(s, "store", ackID'[s])]
  /\ UNCHANGED <<sessVars, roomVars, srvVars, codec, order, ackHandlers, ackRuns,
                 eventVars, inVars, onDisconnect, discStarted>>

\* id := int(s.ackID.Add(1))
AckAdd(s, c) ==
  /\ httpPc[s] = "added"
  /\ procs[c] = NoCall
  /\ ackID[s] < MaxAcks
  /\ ackID' = [ackID EXCEPT ![s] = @ + 1]
  /\ procs' = [procs EXCEPT ![c] = AckCall(s, "store", ackID[s] + 1)]
  /\ UNCHANGED <<sessVars, roomVars, srvVars, codec, order, ackHandlers, ackRuns,
                 eventVars, inVars, onDisconnect, discStarted>>

\* s.ackHandlers.Store(id, ack)
AckStore(c) ==
  /\ procs[c].op = "EmitWithAck"
  /\ procs[c].pc = "store"
  /\ ackHandlers' = [ackHandlers EXCEPT ![procs[c].sid] = @ \cup {procs[c].id}]
  /\ procs' = [procs EXCEPT ![c].pc = "send"]
  /\ UNCHANGED <<sessVars, roomVars, srvVars, codec, order, ackID, ackRuns,
                 eventVars, inVars, onDisconnect, discStarted>>

\* return s.sendPacket(packet)
AckSend(c) ==
  /\ procs[c].op = "EmitWithAck"
  /\ procs[c].pc = "send"
  /\ Send(procs[c].sid, AckedEmitPacket(procs[c].id))
  /\ procs' = [procs EXCEPT ![c] = NoCall]
  /\ UNCHANGED <<restVars, roomVars, sockVars, srvVars, codec, order>>

\* The ids of the EVENTs that have been enqueued on the session of s.
EventsSent(s) ==
  {n \in 1..MaxAcks : AckedEmitPacket(n) \in BagToSet(enqueuedSio[s])}

\* The ids whose callbacks have been started.
Acked(s) == {ackRuns[s][i].id : i \in 1..Len(ackRuns[s])}

\* The ACK of the client for an EVENT that was enqueued for it and that it
\* has not acknowledged before.
ClientAck(s) ==
  \E n \in EventsSent(s) \ Acked(s) : HandleAck(s, <<n>>, <<>>)

EmitAckNext ==
  \E s \in EioSids :
    \/ NewSocket(s)
    \/ Register(s)
    \/ JoinOwn(s)
    \/ SendConnect(s)
    \/ \E c \in Callers : AckAdd(s, c) \/ AckStore(c) \/ AckSend(c)
    \/ ClientAck(s)
    \/ WriterWrite(s, TRUE)

EmitAckSpec == RoomsInit /\ [][EmitAckNext]_vars

(***************************************************************************)
(* The calls of conn.WriteMessage on the WebSocket of a session, each with *)
(* its begin and its end: the handshake in ServeHTTP, the frames of        *)
(* writeLoop, and the CLOSE frame of Close, which runs in the task of its  *)
(* caller.  A task is in the call from WriteEnter to WriteLeave; what the  *)
(* write does is the step of Handshake, WriterWrite or CloseWrite between  *)
(* the two.  No lock is taken around any of the three calls.               *)
(***************************************************************************)
WriteSites == {"handshake", "writeLoop", "Close"}

\* The call of WriteMessage a task is in; n is the number of frames the
\* writer had written when the call began.
WriteCall(s, site) ==
  [op |-> "WriteMessage", sid |-> s, room |-> "", site |-> site,
   n |-> Len(written[s])]

\* The tasks that are in a WriteMessage call on the connection of s.
InWriteMessage(s) ==
  {c \in Goroutines : procs[c].op = "WriteMessage" /\ procs[c].sid = s}

\* The code at the site is in its call of WriteMessage.
Entered(s, site) == \E c \in InWriteMessage(s) : procs[c].site = site

\* The site is about to call WriteMessage.
AtWrite(s, site) ==
  CASE site = "handshake" -> httpPc[s] = "stored"
    [] site = "writeLoop" -> writerPc[s] = "run" /\ outgoing[s] # <<>>
    [] site = "Close" -> closePc[s] = "latched"

\* The call that began at the site has done its write.
WriteDone(s, site, n) ==
  CASE site = "handshake" -> httpPc[s] # "stored"
    [] site = "writeLoop" -> Len(written[s]) > n \/ writerPc[s] = "done"
    [] site = "Close" -> closePc[s] # "latched"

\* The write of the call the site is in has not been done.
Writing(s, site) ==
  \E c \in InWriteMessage(s) :
    procs[c].site = site /\ ~WriteDone(s, site, procs[c].n)

WriteEnter(s, c, site) ==
  /\ procs[c] = NoCall
  /\ ~Entered(s, site)
  /\ AtWrite(s, site)
  /\ procs' = [procs EXCEPT ![c] = WriteCall(s, site)]
  /\ UNCHANGED <<sessVars, roomVars, sockVars, srvVars, codec, order>>

WriteLeave(c) ==
  /\ procs[c].op = "WriteMessage"
  /\ WriteDone(procs[c].sid, procs[c].site, procs[c].n)
  /\ procs' = [procs EXCEPT ![c] = NoCall]
  /\ UNCHANGED <<sessVars, roomVars, sockVars, srvVars, codec, order>>

WriteNext ==
  \E s \in EioSids :
    \/ \E c \in Goroutines, site \in WriteSites : WriteEnter(s, c, site)
    \/ \E c \in Goroutines : WriteLeave(c)
    \/ Writing(s, "handshake") /\ Handshake(s, TRUE)
    \/ OnCloseEio(s)
    \/ Start(s)
    \/ AppSend(s)
    \/ ReadClose(s)
    \/ ReadError(s, TRUE)
    \/ Writing(s, "writeLoop") /\ WriterWrite(s, TRUE)
    \/ ~Entered(s, "writeLoop") /\ WriterExit(s)
    \/ ServerClose(s)
    \/ Writing(s, "Close") /\ CloseWrite(s)
    \/ CloseNotify(s)

WriteSpec == Init /\ [][WriteNext]_vars

(***************************************************************************)
(* One caller that calls Broadcast again and again, each call after the    *)
(* one before has returned.  Broadcast returns when it has spawned its     *)
(* goroutines; each of them calls Send whenever it is scheduled.           *)
(***************************************************************************)
\* Broadcast calls the caller makes.
MaxBroadcasts == 2

\* The packet of the caller's k-th call.
BroadcastPacketOf(k) ==
  Packet(PacketTypeMessage, "EVENT broadcast " \o ToString(k))

\* return nil: the goroutines of the call are on their own.
BroadcastReturn ==
  /\ bc.phase = "spawned"
  /\ order.calls < MaxBroadcasts
  /\ order' = [order EXCEPT
                 !.calls = @ + 1,
                 !.pending = @ \cup {<<order.calls + 1, s>> : s \in tasks}]
  /\ tasks' = {}
  /\ bc' = NoBroadcast
  /\ UNCHANGED <<sessVars, sockets, adapterVars, sockRooms, closeVars, bcResult,
                 sockVars, srvVars, codec, procs>>

\* go socket.session.Send(...) of the k-th call; sent keeps the place the
\* packet got in the order of the session's successful Sends (0: none).
SpawnedSend(k, s) ==
  /\ <<k, s>> \in order.pending
  /\ Send(s, BroadcastPacketOf(k))
  /\ order' = [order EXCEPT
                 !.pending = @ \ {<<k, s>>},
                 !.sent = @ \cup {<<k, s, IF lastSend'[s] = SendOk
                                            THEN Enqueued(s) + 1 ELSE 0>>}]
  /\ UNCHANGED <<restVars, roomVars, sockVars, srvVars, codec, procs>>

OrderNext ==
  \/ \E s \in Sids :
       \/ NewSocket(s)
       \/ Register(s)
       \/ JoinOwn(s)
       \/ SendConnect(s)
       \/ WriterWrite(s, FALSE)
       \/ \E k \in 1..MaxBroadcasts : SpawnedSend(k, s)
  \/ BroadcastCollect
  \/ BroadcastSpawn
  \/ BroadcastReturn

OrderSpec == RoomsInit /\ [][OrderNext]_vars

(***************************************************************************)
(* Tasks of the application that call Join and Leave on one socket at the  *)
(* same time.  Each call has two steps: the socket's own set under         *)
(* roomsMu, and then, with no lock held in between, the adapter under its  *)
(* lock.                                                                   *)
(***************************************************************************)
\* Join: s.roomsMu.Lock(); s.rooms[room] = true; s.roomsMu.Unlock()
JoinLocal(c, s, room) ==
  /\ procs[c] = NoCall
  /\ httpPc[s] = "added"
  /\ ~closed[s]
  /\ sockRooms' = [sockRooms EXCEPT ![s] = @ \cup {room}]
  /\ procs' = [procs EXCEPT ![c] = [op |-> "Join", sid |-> s, room |-> room]]
  /\ UNCHANGED <<sessVars, sockets, adapterVars, closeVars, bcVars, sockVars,
                 srvVars, codec, order>>

\* Join: s.namespace.adapter.Add(s.id, room)
JoinAdd(c) ==
  /\ procs[c].op = "Join"
  /\ AdapterWritable
  /\ Add(procs[c].sid, procs[c].room)
  /\ procs' = [procs EXCEPT ![c] = NoCall]
  /\ UNCHANGED <<sessVars, sockets, sockRooms, closeVars, bcVars, sockVars,
                 srvVars, codec, order>>

\* Leave: s.roomsMu.Lock(); delete(s.rooms, room); s.roomsMu.Unlock()
LeaveLocal(c, s, room) ==
  /\ procs[c] = NoCall
  /\ httpPc[s] = "added"
  /\ ~closed[s]
  /\ sockRooms' = [sockRooms EXCEPT ![s] = @ \ {room}]
  /\ procs' = [procs EXCEPT ![c] = [op |-> "Leave", sid |-> s, room |-> room]]
  /\ UNCHANGED <<sessVars, sockets, adapterVars, closeVars, bcVars, sockVars,
                 srvVars, codec, order>>

\* Leave: s.namespace.adapter.Remove(s.id, room)
LeaveRemove(c) ==
  /\ procs[c].op = "Leave"
  /\ AdapterWritable
  /\ Remove(procs[c].sid, procs[c].room)
  /\ procs' = [procs EXCEPT ![c] = NoCall]
  /\ UNCHANGED <<sessVars, sockets, sockRooms, closeVars, bcVars, sockVars,
                 srvVars, codec, order>>

JoinLeaveNext ==
  \/ \E s \in EioSids :
       \/ NewSocket(s)
       \/ Register(s)
       \/ JoinOwn(s)
       \/ SendConnect(s)
       \/ \E c \in Callers, room \in Rooms :
            \/ JoinLocal(c, s, room)
            \/ LeaveLocal(c, s, room)
  \/ \E c \in Callers :
       \/ JoinAdd(c)
       \/ LeaveRemove(c)

JoinLeaveSpec == RoomsInit /\ [][JoinLeaveNext]_vars

(***************************************************************************)
(* The locks.  MemoryAdapter.mu, Namespace.mu, Socket.roomsMu and          *)
(* Socket.disconnectMu are sync.RWMutex values.  Each operation is the     *)
(* sequence of lock statements its code executes, in the order of the      *)
(* code (deferred unlocks run last, the latest defer first); what the      *)
(* critical sections do to the maps is the subject of the actions above    *)
(* and decides no lock statement, except through the inputs drawn when a   *)
(* call begins.  Tasks run the operations concurrently, one statement per  *)
(* step.                                                                   *)
(***************************************************************************)
AdapterMu == <<"mu", "adapter">>
NamespaceMu == <<"mu", "namespace">>
RoomsMu(s) == <<"roomsMu", s>>
DisconnectMu(s) == <<"disconnectMu", s>>

\* A section under the write lock, under the read lock.
Locked(l) == << <<"Lock", l>>, <<"Unlock", l>> >>
RLocked(l) == << <<"RLock", l>>, <<"RUnlock", l>> >>

\* MemoryAdapter.Add, Remove, RemoveAll, Close: a.mu.Lock(); defer
\* a.mu.Unlock()
AddCode == Locked(AdapterMu)
RemoveCode == Locked(AdapterMu)
RemoveAllCode == Locked(AdapterMu)
AdapterCloseCode == Locked(AdapterMu)

\* Socket.Join, Socket.Leave: the socket's set under roomsMu, then the
\* adapter.
JoinCode(s) == Locked(RoomsMu(s)) \o AddCode
LeaveCode(s) == Locked(RoomsMu(s)) \o RemoveCode

\* Namespace.addSocket: the directory under ns.mu, then Join of the own
\* room; sendPacket and the connect handler take none of these locks.
AddSocketCode(s) == Locked(NamespaceMu) \o JoinCode(s)

\* A removeSocket that calls RemoveAll before it unlocks the directory.
RemoveSocketCodeNested ==
  << <<"Lock", NamespaceMu>> >> \o RemoveAllCode \o << <<"Unlock", NamespaceMu>> >>

\* Namespace.removeSocket: the directory under ns.mu, then RemoveAll.
RemoveSocketCode == Locked(NamespaceMu) \o RemoveAllCode

\* n times Leave.
RECURSIVE Leaves(_, _)
Leaves(s, n) == IF n = 0 THEN <<>> ELSE LeaveCode(s) \o Leaves(s, n - 1)

\* Socket.handleClose with n rooms in its snapshot: the snapshot under
\* roomsMu.RLock, Leave of each room, the listeners under
\* disconnectMu.RLock, removeSocket.
HandleCloseCode(s, n) ==
  RLocked(RoomsMu(s)) \o Leaves(s, n) \o RLocked(DisconnectMu(s))
    \o RemoveSocketCode

\* MemoryAdapter.Broadcast: a.mu.RLock() with a deferred RUnlock; with no
\* room given (all) the directory is read under ns.mu.RLock; if Encode
\* fails (~ok) Broadcast returns; else ns.mu.RLock() with a deferred
\* RUnlock around the loop that spawns the Sends.
BroadcastCode(all, ok) ==
  << <<"RLock", AdapterMu>> >>
    \o (IF all THEN RLocked(NamespaceMu) ELSE <<>>)
    \o (IF ok THEN RLocked(NamespaceMu) ELSE <<>>)
    \o << <<"RUnlock", AdapterMu>> >>

\* The calls of Broadcast, and the calls of every operation.  The sockets
\* of these calls join their own room only, so that the snapshot of a
\* handleClose holds that room or none.
BroadcastCalls ==
  {[op |-> "Broadcast", sid |-> NoSid, room |-> "", code |-> BroadcastCode(all, ok)] :
     all \in BOOLEAN, ok \in BOOLEAN}

LockCalls ==
  BroadcastCalls
  \cup {[op |-> "Join", sid |-> s, room |-> s, code |-> JoinCode(s)] : s \in EioSids}
  \cup {[op |-> "Leave", sid |-> s, room |-> s, code |-> LeaveCode(s)] : s \in EioSids}
  \cup {[op |-> "addSocket", sid |-> s, room |-> s, code |-> AddSocketCode(s)] :
          s \in EioSids}
  \cup {[op |-> "handleClose", sid |-> s, room |-> "", code |-> HandleCloseCode(s, n)] :
          s \in EioSids, n \in 0..Cardinality(EioSids)}
  \cup {[op |-> "Close", sid |-> NoSid, room |-> "", code |-> AdapterCloseCode]}

\* Two goroutines call any operation; a third one broadcasts.
CallsOf(c) == IF c \in Callers THEN LockCalls ELSE BroadcastCalls

\* The state of a goroutine.
Running(c) == procs[c] # NoCall
Held(c) == IF Running(c) THEN procs[c].held ELSE <<>>
AtEnd(c) == Running(c) /\ procs[c].pc > Len(procs[c].code)
Ins(c) == procs[c].code[procs[c].pc]
At(c, kind) == Running(c) /\ ~AtEnd(c) /\ Ins(c)[1] = kind
Waiting(c, how, l) ==
  Running(c) /\ ~AtEnd(c) /\ procs[c].wait = how /\ Ins(c)[2] = l

\* The state of a lock.
Holds(c, l, mode) == \E i \in 1..Len(Held(c)) : Held(c)[i] = <<l, mode>>
Writers(l) == {c \in Goroutines : Holds(c, l, "W")}
Readers(l) == {c \in Goroutines : Holds(c, l, "R")}
PendingWriters(l) == {c \in Goroutines : Waiting(c, "pending", l)}
QueuedReaders(l) == {c \in Goroutines : Waiting(c, "queued", l)}

\* The locks held without the last one of l in the mode.
RECURSIVE Release(_, _)
Release(held, lm) ==
  IF held = <<>> THEN <<>>
  ELSE IF held[Len(held)] = lm THEN SubSeq(held, 1, Len(held) - 1)
  ELSE Append(Release(SubSeq(held, 1, Len(held) - 1), lm), held[Len(held)])

\* The task after its statement, holding held: a task that has run its
\* code to the end holding no lock is free for the next call.
Advance(call, held) ==
  IF call.pc = Len(call.code) /\ held = <<>> THEN NoCall
  ELSE [call EXCEPT !.pc = @ + 1, !.held = held, !.wait = "no"]

LockRest == <<sessVars, roomVars, sockVars, srvVars, codec, order>>

\* A task calls an operation.
BeginCall(c) ==
  /\ procs[c] = NoCall
  /\ \E call \in CallsOf(c) :
       procs' = [procs EXCEPT ![c] =
                   [op |-> call.op, sid |-> call.sid, room |-> call.room,
                    code |-> call.code, pc |-> 1, held |-> <<>>, wait |-> "no"]]
  /\ UNCHANGED LockRest

\* RWMutex.Lock, first half: the writers' mutex is taken (no other writer
\* holds or awaits the lock) and the readers are told: from now on an RLock
\* blocks.
LockCall(c) ==
  /\ At(c, "Lock")
  /\ procs[c].wait = "no"
  /\ Writers(Ins(c)[2]) = {}
  /\ PendingWriters(Ins(c)[2]) = {}
  /\ procs' = [procs EXCEPT ![c].wait = "pending"]
  /\ UNCHANGED LockRest

\* RWMutex.Lock, second half: the readers that held the lock have left.
LockGet(c) ==
  /\ At(c, "Lock")
  /\ procs[c].wait = "pending"
  /\ Readers(Ins(c)[2]) = {}
  /\ procs' = [procs EXCEPT ![c] =
                 Advance(@, Append(@.held, <<Ins(c)[2], "W">>))]
  /\ UNCHANGED LockRest

\* RWMutex.RLock: the lock is taken unless a writer holds or awaits it;
\* then the reader is queued until that writer's Unlock.
RLock(c) ==
  /\ At(c, "RLock")
  /\ procs[c].wait = "no"
  /\ IF Writers(Ins(c)[2]) = {} /\ PendingWriters(Ins(c)[2]) = {}
       THEN procs' = [procs EXCEPT ![c] =
                        Advance(@, Append(@.held, <<Ins(c)[2], "R">>))]
       ELSE procs' = [procs EXCEPT ![c].wait = "queued"]
  /\ UNCHANGED LockRest

\* RWMutex.RUnlock
RUnlock(c) ==
  /\ At(c, "RUnlock")
  /\ Holds(c, Ins(c)[2], "R")
  /\ procs' = [procs EXCEPT ![c] =
                 Advance(@, Release(@.held, <<Ins(c)[2], "R">>))]
  /\ UNCHANGED LockRest

\* RWMutex.Unlock: the queued readers get the lock, then the writers'
\* mutex is free.
Unlock(c) ==
  /\ At(c, "Unlock")
  /\ Holds(c, Ins(c)[2], "W")
  /\ procs' = [d \in Goroutines |->
                 IF d = c
                   THEN Advance(procs[c], Release(procs[c].held, <<Ins(c)[2], "W">>))
                 ELSE IF d \in QueuedReaders(Ins(c)[2])
                   THEN Advance(procs[d], Append(procs[d].held, <<Ins(c)[2], "R">>))
                 ELSE procs[d]]
  /\ UNCHANGED LockRest

\* A statement of a task that is in a call.
Proceed(c) == LockGet(c) \/ RLock(c) \/ RUnlock(c) \/ Unlock(c)

LockNext ==
  \E c \in Goroutines :
    \/ BeginCall(c)
    \/ LockCall(c)
    \/ LockGet(c)
    \/ RLock(c)
    \/ RUnlock(c)
    \/ Unlock(c)

LockInit == RoomsInit

\* The scheduler runs every task that can run; the writers' mutex of an
\* RWMutex is a sync.Mutex, which hands itself over to a waiter that has
\* failed to get it for long (starvation mode).
LockSpec ==
  /\ LockInit
  /\ [][LockNext]_vars
  /\ \A c \in Goroutines : WF_vars(Proceed(c)) /\ SF_vars(LockCall(c))

(***************************************************************************)
(* A started session with a writer that runs whenever it can: writeLoop is *)
(* a goroutine of its own, which the Go scheduler runs while a packet is   *)
(* in the channel.  The ping callback, the reader answering the client's  *)
(* PINGs and the application send; the network may fail, and the client,   *)
(* the server and the pong-timeout may close the session at any time.      *)
(***************************************************************************)
DrainNext ==
  \E s \in EioSids :
    \/ AppSend(s)
    \/ PingFire(s)
    \/ PingArm(s)
    \/ TimeoutFire(s)
    \/ ReadPing(s)
    \/ ReadClose(s)
    \/ ReadError(s, TRUE)
    \/ WriterWrite(s, TRUE)
    \/ WriterExit(s)
    \/ ServerClose(s)
    \/ CloseWrite(s)
    \/ CloseNotify(s)

DrainSpec ==
  /\ RoomsInit
  /\ [][DrainNext]_vars
  /\ \A s \in EioSids : WF_vars(WriterWrite(s, TRUE))

(***************************************************************************)
(* Broadcasts to sockets whose sessions refuse the packet: the application *)
(* fills the channel of a session with Emit (no writer drains it here) or  *)
(* closes the session with Disconnect, and the socket stays in the         *)
(* directory until handleClose removes it.                                 *)
(***************************************************************************)
RefusedNext ==
  \/ \E s \in Sids :
       \/ NewSocket(s)
       \/ Register(s)
       \/ JoinOwn(s)
       \/ SendConnect(s)
       \/ Emit(s)
       \/ Disconnect(s)
       \/ CloseWrite(s)
       \/ CloseNotify(s)
       \/ BroadcastSend(s)
  \/ BroadcastCollect
  \/ BroadcastSpawn

RefusedSpec == RoomsInit /\ [][RefusedNext]_vars

(***************************************************************************)
(* Properties                                                              *)
(***************************************************************************)

\* C1: however many Close calls are made on a session and whoever makes
\* them, the close callback is invoked at most once and at most one CLOSE
\* frame is written; once Close has completed, a callback that was
\* registered when Close was called has been invoked exactly once.
C1_CloseOnce ==
  \A s \in Sids :
    /\ onCloseCalls[s] <= 1
    /\ closeFrames[s] <= 1
    /\ (closePc[s] = "done" /\ cbAtClose[s] # "nil" => onCloseCalls[s] = 1)

\* Close has completed after at least two calls: the client's CLOSE packet
\* won, and the reader's deferred Close("read error") came second.
C1_Witness ==
  \E s \in Sids :
    /\ closePc[s] = "done"
    /\ closeReason[s] = "client closed"
    /\ readerPc[s] = "done"
    /\ onCloseCalls[s] = 1
    /\ closeFrames[s] = 1

\* A pong-timeout is pending, or its arming is, after a PING was sent, and
\* the reader has handled n PONGs so far.
PongAwaited(s, n) ==
  /\ PingsSent(s) > 0
  /\ pingCb[s] > 0 \/ pingTimeout[s] = "armed" \/ timeoutOrphans[s] > 0
  /\ pongsHandled[s] = n

\* C2: in a quiet environment, once the server has sent a PING, either a
\* further PONG is handled or the session ends up closed with reason
\* "ping timeout" and its close callback invoked exactly once.
C2_PingTimeoutCloses ==
  \A s \in EioSids : \A n \in 0..MaxClientFrames :
    PongAwaited(s, n) ~>
      \/ pongsHandled[s] > n
      \/ /\ closePc[s] = "done"
         /\ closeReason[s] = "ping timeout"
         /\ onCloseCalls[s] = 1

\* The session was closed by the pong-timeout although the client sent no
\* PONG at all.
C2_Witness ==
  \E s \in EioSids :
    /\ closePc[s] = "done"
    /\ closeReason[s] = "ping timeout"
    /\ onCloseCalls[s] = 1
    /\ pingsWritten[s] > 0
    /\ pongsHandled[s] = 0

\* C3: a session whose client answers every PING with one PONG is never
\* closed with reason "ping timeout": when the pong-timeout closes the
\* session, a PING is unanswered or the client sent a PONG nobody asked for.
C3_NoTimeoutWhenAnswered ==
  [][\A s \in Sids :
       closePc[s] = "idle" /\ closeReason'[s] = "ping timeout"
         => strayPong[s] \/ PingsSent(s) > pongsHandled[s]]_vars

\* A step of a Send call that is seen in the state: its result differs from
\* the last one, or it enqueued.
SendStep(s) ==
  \/ lastSend'[s] # lastSend[s]
  \/ enqueued'[s] # enqueued[s]
  \/ enqueuedSio'[s] # enqueuedSio[s]

\* C4: a Send that starts after Close has completed returns SessionClosed
\* and enqueues nothing, whatever the channel holds.
C4_SendAfterClose ==
  [][\A s \in Sids :
       closePc[s] = "done" /\ SendStep(s)
         => lastSend'[s] = ErrSessionClosed /\ outgoing'[s] = outgoing[s]]_vars

\* C5: a Send always has an outcome it can return with at once, the
\* channel never holds more than its capacity, and a Send on an open
\* session whose channel is full returns SlowClient, leaves the channel as
\* it is and does not close the session.
C5_SendNeverBlocks ==
  /\ [](\A s \in Sids : SendResults(outgoing[s], closed[s]) # {})
  /\ [](\A s \in Sids : Len(outgoing[s]) <= QueueCap)
  /\ [][\A s \in Sids :
          ~closed[s] /\ Len(outgoing[s]) = QueueCap /\ SendStep(s)
            => /\ lastSend'[s] = ErrSlowClient
               /\ outgoing'[s] = outgoing[s]
               /\ ~closed'[s]
               /\ closePc'[s] = "idle"]_vars

\* A Send on an open session found the channel full.
C5_Witness ==
  \E s \in Sids :
    /\ lastSend[s] = ErrSlowClient
    /\ Len(outgoing[s]) = QueueCap
    /\ ~closed[s]

\* C6: the frames the writer wrote are the first packets enqueued, in the
\* order of their Sends.
C6_WriteOrder ==
  \A s \in Sids : \A i \in 1..Len(written[s]) : written[s][i] = i

\* The writer has written packets of two senders, a PING among them.
C6_Witness ==
  \E s \in Sids : Len(written[s]) >= 2 /\ pingsWritten[s] >= 1

\* C7: in every state the adapter's two maps agree, sid being in rooms[r]
\* exactly if r is in socketRooms[sid], and neither map holds an empty set.
C7_AdapterMapsAgree ==
  /\ \A sid \in Sids : \A room \in Rooms :
       (room \in DOMAIN rooms /\ sid \in rooms[room])
         <=> (sid \in DOMAIN socketRooms /\ room \in socketRooms[sid])
  /\ \A room \in DOMAIN rooms : rooms[room] # {}
  /\ \A sid \in DOMAIN socketRooms : socketRooms[sid] # {}

\* handleClose has taken a socket out of the rooms and RemoveAll has run,
\* while the other socket is still in a room.
C7_Witness ==
  \E s \in Sids : \E u \in Sids \ {s} :
    /\ hcPc[s] = "done"
    /\ s \notin DOMAIN socketRooms
    /\ s \notin DOMAIN rooms
    /\ u \in DOMAIN socketRooms

\* The broadcast has spawned its Sends and all of them have run.
BroadcastDone == bc.phase = "spawned" /\ tasks = {}

\* Copies of the broadcast's packet enqueued on the session.
Copies(s) == enqueued[s][BroadcastPacket]

\* C8 as stated: a finished broadcast to rooms has enqueued exactly one copy
\* on the session of every member of the rooms that is not excluded, and
\* none on any other session.
C8_ExactlyOneCopy ==
  BroadcastDone /\ bc.rooms # {}
    => \A s \in Sids :
         Copies(s) = IF s \in bc.pool \ bc.except THEN 1 ELSE 0

\* The sessions a broadcast to rooms calls Send on: the members of the
\* rooms at the collection, but for the excluded ones and for those no
\* longer in the directory when the Sends are spawned.
RoomTargets == (bc.pool \ bc.except) \cap bc.live

\* C8, amended: a broadcast to rooms makes one Send call, and no more, on
\* the session of every socket of RoomTargets, and none on any other
\* session; a session holds one copy if its Send returned nil and none
\* otherwise, and never two.
C8_OneSendPerMember ==
  bc.phase = "spawned" /\ bc.rooms # {}
    => \A s \in Sids :
         /\ Copies(s) <= 1
         /\ s \notin RoomTargets
              => s \notin tasks /\ bcResult[s] = "none" /\ Copies(s) = 0
         /\ s \in RoomTargets /\ s \in tasks
              => bcResult[s] = "none" /\ Copies(s) = 0
         /\ s \in RoomTargets /\ s \notin tasks
              => /\ bcResult[s] # "none"
                 /\ Copies(s) = IF bcResult[s] = SendOk THEN 1 ELSE 0

\* A finished broadcast to two rooms: a socket that is in both of them holds
\* one copy, and the excluded socket, a member too, holds none.
C8_Witness ==
  \E s \in Sids : \E x \in Sids \ {s} :
    /\ BroadcastDone
    /\ bc.rooms = {s, x}
    /\ bc.except = {x}
    /\ bc.pool = {s, x}
    /\ \A room \in bc.rooms : room \in DOMAIN rooms /\ s \in rooms[room]
    /\ bcResult[s] = SendOk
    /\ Copies(s) = 1
    /\ Copies(x) = 0

\* C9: a broadcast with no room calls Send on the session of exactly the
\* sockets that are in the directory during the call and are not excluded,
\* whatever rooms they are in.
C9_NoRoomTargetsDirectory ==
  bc.phase = "spawned" /\ bc.rooms = {}
    => \A s \in Sids :
         (s \in tasks \/ bcResult[s] # "none")
           <=> s \in (bc.pool \ bc.except) \cap bc.live

\* A broadcast with no room has sent to a socket that was in no room, not
\* even the one named by its id, while the other socket was excluded.
C9_Witness ==
  \E s \in Sids : \E x \in Sids \ {s} :
    /\ BroadcastDone
    /\ bc.rooms = {}
    /\ bc.except = {x}
    /\ x \in bc.pool
    /\ s \in bc.roomless
    /\ bcResult[s] = SendOk
    /\ Copies(s) = 1
    /\ bcResult[x] = "none"

\* The broadcast is To(s).Emit, made after addSocket had returned for s,
\* it is finished and the session of s is still open.
EmitToOwnRoom(s) ==
  /\ BroadcastDone
  /\ bc.rooms = {s}
  /\ bc.except = {}
  /\ s \in bc.added
  /\ ~closed[s]

\* C10 as stated: To(s).Emit leaves one copy on the session of s and none
\* on any other.
C10_DeliversToOwnRoom ==
  \A s \in Sids :
    EmitToOwnRoom(s)
      => Copies(s) = 1 /\ \A u \in Sids \ {s} : Copies(u) = 0

\* C10, amended: To(s).Emit calls Send on the session of s exactly if s was
\* still in the room named by its id, and that Send fails only for a full
\* channel; copies go to members of that room only, one each at most; so if
\* s was the room's only member and its Send returned nil, s holds one copy
\* and no other session holds any.
C10_DeliversToMembers ==
  \A s \in Sids :
    EmitToOwnRoom(s)
      => /\ s \in bc.pool => bcResult[s] \in {SendOk, ErrSlowClient}
         /\ s \notin bc.pool => bcResult[s] = "none"
         /\ Copies(s) = IF bcResult[s] = SendOk THEN 1 ELSE 0
         /\ \A u \in Sids \ {s} :
              Copies(u) = IF u \in bc.pool /\ bcResult[u] = SendOk
                            THEN 1 ELSE 0

\* To(s).Emit has left one copy on the session of s, the room's only
\* member, and none on the other socket, which is in the directory too.
C10_Witness ==
  \E s \in Sids : \E u \in Sids \ {s} :
    /\ EmitToOwnRoom(s)
    /\ bc.pool = {s}
    /\ u \in sockets
    /\ httpPc[u] = "added"
    /\ bcResult[s] = SendOk
    /\ Copies(s) = 1
    /\ Copies(u) = 0

\* C11: an ack callback is started only by an inbound ACK that carries an id
\* whose callback is pending; that ACK starts it once, with the data of the
\* ACK as arguments, and takes it out of the table; an ACK without id, with
\* an id that is not pending (answered before, or never assigned) starts
\* nothing and leaves the table as it was.  Hence an assigned id is pending
\* until its callback has been started, and no callback is started twice.
C11_AckOnce ==
  /\ [](\A s \in Sids :
          /\ ackHandlers[s] \subseteq 1..ackID[s]
          /\ \A n \in 1..ackID[s] :
               (n \in ackHandlers[s])
                 # (\E i \in DOMAIN ackRuns[s] : ackRuns[s][i].id = n)
          /\ \A i, j \in DOMAIN ackRuns[s] :
               ackRuns[s][i].id = ackRuns[s][j].id => i = j)
  /\ [][\A s \in Sids :
          LET isAck == inbound'[s] > inbound[s]
                         /\ lastIn'[s].type = PacketTypeAck
              id == lastIn'[s].id
          IN /\ isAck /\ id # NoId /\ id[1] \in ackHandlers[s]
                  => /\ ackRuns'[s] = Append(ackRuns[s],
                                        [id |-> id[1], args |-> lastIn'[s].data])
                     /\ ackHandlers'[s] = ackHandlers[s] \ {id[1]}
             /\ ~(isAck /\ id # NoId /\ id[1] \in ackHandlers[s])
                  => /\ ackRuns'[s] = ackRuns[s]
                     /\ ackHandlers'[s] \in
                          {ackHandlers[s], ackHandlers[s] \cup {ackID'[s]}}
             /\ isAck => ackHandlers'[s] \subseteq ackHandlers[s]]_vars

\* The callback of an id has been started with the two values of the first
\* ACK, and a second ACK with that id has been dropped.
C11_Witness ==
  \E s \in Sids :
    /\ Len(ackRuns[s]) = 1
    /\ ackRuns[s][1].args = <<"v1", "v2">>
    /\ inbound[s] = 2
    /\ lastIn[s].type = PacketTypeAck
    /\ lastIn[s].id = <<ackRuns[s][1].id>>

\* The handleEvent step of the reader for a well-formed EVENT.
EventStep(s) ==
  /\ inbound'[s] > inbound[s]
  /\ lastIn'[s].type = PacketTypeEvent
  /\ lastIn'[s].data # <<>>

\* The ACK packet of the last call of an ack callable.
AckOf(c) == AckPacket(DefaultNamespace, c.id, c.args)

\* C12 as stated: every call of an ack callable enqueues its ACK packet on
\* the session.
C12_AckEnqueued ==
  [][\A s \in Sids :
       lastAck'[s] # lastAck[s]
         => CopiesIn(AckOf(lastAck'[s]), enqueuedSio'[s])
              = CopiesIn(AckOf(lastAck'[s]), enqueuedSio[s]) + 1]_vars

\* C12: the tasks an EVENT starts get the tail of the packet's data, and an
\* ack callable bound to the packet's id exactly if the packet has one; the
\* dispatch itself sends nothing.  A call of an ack callable with arguments
\* a1..ak is one Send, on the socket's own session, of the ACK packet with
\* that id, the socket's namespace and the data [a1..ak]; the packet is
\* enqueued exactly if that Send succeeds.  No ACK packet is enqueued in any
\* other way, so an EVENT without id causes none.
C12_AckSent ==
  /\ [][\A s \in Sids :
          EventStep(s)
            => /\ \A i \in DOMAIN started'[s] :
                    /\ started'[s][i].args = Tail(lastIn'[s].data)
                    /\ started'[s][i].ack = lastIn'[s].id
               /\ ackFuncs'[s] \ ackFuncs[s]
                    \subseteq {n \in AckIds : lastIn'[s].id = <<n>>}
               /\ outgoing' = outgoing
               /\ enqueued' = enqueued
               /\ enqueuedSio' = enqueuedSio]_vars
  /\ [][\A s \in Sids :
          lastAck'[s] # lastAck[s]
            => LET c == lastAck'[s]
                   p == AckOf(c)
               IN /\ c.id # NoId /\ c.id[1] \in ackFuncs[s]
                  /\ c.result = lastSend'[s]
                  /\ \A o \in Sids \ {s} :
                       /\ outgoing'[o] = outgoing[o]
                       /\ enqueued'[o] = enqueued[o]
                       /\ enqueuedSio'[o] = enqueuedSio[o]
                  /\ IF c.result = SendOk
                       THEN /\ Len(outgoing'[s]) = Len(outgoing[s]) + 1
                            /\ SubSeq(outgoing'[s], 1, Len(outgoing[s]))
                                 = outgoing[s]
                            /\ outgoing'[s][Len(outgoing'[s])].type = p.type
                            /\ outgoing'[s][Len(outgoing'[s])].data = p.data
                            /\ enqueued'[s] = enqueued[s]
                            /\ enqueuedSio'[s] =
                                 enqueuedSio[s] (+) SetToBag({p})
                       ELSE /\ outgoing'[s] = outgoing[s]
                            /\ enqueued'[s] = enqueued[s]
                            /\ enqueuedSio'[s] = enqueuedSio[s]]_vars
  /\ [][\A s \in Sids : \A p \in AckPackets :
          CopiesIn(p, enqueuedSio'[s]) > CopiesIn(p, enqueuedSio[s])
            => /\ lastAck'[s].result = SendOk
               /\ p = AckOf(lastAck'[s])
               /\ lastAck'[s].id[1] \in ackFuncs[s]]_vars

\* A handler that was given an ack callable has called it with two values,
\* and the ACK is in the session's channel.
C12_Witness ==
  \E s \in Sids :
    /\ started[s] # <<>>
    /\ started[s][1].ack = <<1>>
    /\ lastAck[s].id = <<1>>
    /\ lastAck[s].args = <<"v1", "v2">>
    /\ lastAck[s].result = SendOk
    /\ \E i \in DOMAIN outgoing[s] : outgoing[s][i].data = AckOf(lastAck[s]).data

\* The close path of the socket's session has completed: Close has called
\* handleClose, and handleClose has returned.
ClosePathDone(s) == closePc[s] = "done" /\ hcPc[s] = "done"

\* C13: once the close path of a socket's session has completed, the
\* adapter holds no membership for the socket's id: it is in no room's
\* member set and has no rooms of its own.
C13_NoMembershipAfterClose ==
  \A s \in Sids :
    ClosePathDone(s)
      => /\ RoomsOf(s) = {}
         /\ \A room \in Rooms : s \notin Members(room)

\* The close path removed the socket from the directory of its namespace
\* (where addSocket had entered it).
Removed(s) ==
  /\ hcPc[s] \in {"remove", "done"}
  /\ httpPc[s] \in {"listed", "joined", "added"}
  /\ s \notin sockets

\* C14: a socket the close path has removed from the directory stays
\* removed; a Broadcast that looks its targets up in the directory after the
\* removal spawns no Send for it, whatever rooms it is (still, or again) a
\* member of; and a broadcast packet is enqueued on a session only by a Send
\* the Broadcast spawned.  So no broadcast that starts after the removal
\* enqueues a packet on the socket's session.
C14_NoBroadcastAfterRemoval ==
  /\ [][\A s \in Sids : Removed(s) => Removed(s)']_vars
  /\ [][\A s \in Sids :
          Removed(s) /\ bc.phase = "collected" /\ bc'.phase = "spawned"
            => s \notin tasks']_vars
  /\ [][\A s \in Sids :
          enqueued'[s][BroadcastPacket] # enqueued[s][BroadcastPacket]
            => s \in tasks /\ s \notin tasks']_vars
  /\ [](\A s \in Sids :
          Removed(s) /\ bc.phase # "spawned"
            => s \notin tasks /\ enqueued[s][BroadcastPacket] = 0)

\* A broadcast to a room the removed socket is a member of has looked up
\* its targets after the removal.
C14_Witness ==
  \E s \in Sids :
    /\ Removed(s)
    /\ bc.phase = "spawned"
    /\ s \in bc.targets
    /\ s \notin bc.live
    /\ enqueued[s][BroadcastPacket] = 0

\* C17: the list of an event name holds the handlers registered for it
\* since the last Off of the name, in the order of their registration (On
\* appends, Off empties, nothing else changes it); an EVENT of that name
\* starts one task for every handler of the list, in the order of the list,
\* each with the arguments of the event, and no other task: none after an
\* Off that no On followed, none for the handlers of another name.
C17_InOrder ==
  /\ [][\A s \in Sids : \A e \in Events :
          handlers'[s][e] # handlers[s][e]
            => \/ handlers'[s][e] = <<>>
               \/ \E h \in HandlerIds :
                    handlers'[s][e] = Append(handlers[s][e], h)]_vars
  /\ [][\A s \in Sids :
          EventStep(s)
            => LET hs == handlers[s][Head(lastIn'[s].data)]
               IN /\ handlers'[s] = handlers[s]
                  /\ Len(started'[s]) = Len(hs)
                  /\ \A i \in 1..Len(hs) :
                       /\ started'[s][i].handler = hs[i]
                       /\ started'[s][i].args = Tail(lastIn'[s].data)]_vars
  /\ [][\A s \in Sids : started'[s] # started[s] => EventStep(s)]_vars

\* An EVENT "e1" with two arguments has started the two handlers of "e1",
\* the first registered first, while "e2" has a handler too.
C17_Witness ==
  \E s \in Sids :
    /\ lastIn[s].type = PacketTypeEvent
    /\ lastIn[s].data = <<"e1", "v1", "v2">>
    /\ handlers[s]["e1"] = <<"h2", "h1">>
    /\ handlers[s]["e2"] # <<>>
    /\ Len(started[s]) = 2
    /\ started[s][1].handler = "h2"
    /\ started[s][2].handler = "h1"

\* handleClose gets past its listeners.
NotifyStep(s) == hcPc[s] = "leave" /\ hcPc'[s] = "remove"

\* C16: the list of disconnect listeners only grows at its end, and a
\* socket that has a listener when its session is closed has its
\* handleClose as the close callback; the close path runs on to the step
\* that starts the listeners; that step starts one task for every listener
\* then in the list (those registered before the close among them), each
\* with the reason of the Close call that closed the session; and no other
\* step starts a listener, however often Close is called.
C16_ListenersOnce ==
  /\ [][\A s \in Sids :
          onDisconnect'[s] # onDisconnect[s]
            => \E l \in ListenerIds :
                 onDisconnect'[s] = Append(onDisconnect[s], l)]_vars
  /\ [][\A s \in Sids :
          closePc[s] = "idle" /\ closePc'[s] # "idle" /\ onDisconnect[s] # <<>>
            => cbAtClose'[s] = "socket"]_vars
  /\ [][\A s \in Sids :
          closePc[s] # "idle" => closeReason'[s] = closeReason[s]]_vars
  /\ \A s \in EioSids :
       (closed[s] /\ cbAtClose[s] = "socket") ~> (hcPc[s] \in {"remove", "done"})
  /\ [][\A s \in Sids :
          NotifyStep(s)
            => /\ discStarted[s] = <<>>
               /\ closeReason[s] # NoReason
               /\ Len(discStarted'[s]) = Len(onDisconnect[s])
               /\ \A i \in 1..Len(onDisconnect[s]) :
                    /\ discStarted'[s][i].listener = onDisconnect[s][i]
                    /\ discStarted'[s][i].reason = closeReason[s]]_vars
  /\ [][\A s \in Sids :
          discStarted'[s] # discStarted[s] => NotifyStep(s)]_vars

\* Two listeners registered before Socket.Disconnect have been started with
\* its reason, in the order of their registration, and the close path has
\* run to its end.
C16_Witness ==
  \E s \in Sids :
    /\ Len(discStarted[s]) = 2
    /\ discStarted[s][1] = [listener |-> "l1", reason |-> "server disconnect"]
    /\ discStarted[s][2] = [listener |-> "l2", reason |-> "server disconnect"]
    /\ hcPc[s] = "done"

\* An Of call has returned.
Returned(c) == ofPc[c] \in {"found", "rechecked", "created"}

\* C19: the default namespace is in the directory from the start; a name
\* that is in the directory stays in it, with the same instance; at most
\* one instance is ever made for a name, and it is the one in the
\* directory; every Of call returns the instance the directory holds for
\* its name, "/" for the name "".  So all calls for a name return the same
\* instance, and no step, of Server.Close or other, removes a namespace.
C19_OneNamespacePerName ==
  /\ []("/" \in DOMAIN namespaces)
  /\ [](\A name \in NsNames :
          /\ nsCreated[name] <= 1
          /\ (name \in DOMAIN namespaces) <=> (nsCreated[name] = 1)
          /\ name \in DOMAIN namespaces
               => namespaces[name] = Instance(name, 1))
  /\ [][\A name \in DOMAIN namespaces :
          /\ name \in DOMAIN namespaces'
          /\ namespaces'[name] = namespaces[name]]_vars
  /\ [](\A c \in Callers :
          Returned(c)
            => /\ NamespaceName(ofArg[c]) \in DOMAIN namespaces
               /\ ofResult[c] = namespaces[NamespaceName(ofArg[c])]
               /\ ofResult[c].name = (IF ofArg[c] = "" THEN "/" ELSE ofArg[c]))
  /\ [](\A c, e \in Callers :
          Returned(c) /\ Returned(e)
            /\ NamespaceName(ofArg[c]) = NamespaceName(ofArg[e])
            => ofResult[c] = ofResult[e])

\* Two tasks referred to "/chat" for the first time together: both missed
\* it under the read lock, one made it and the other got that instance;
\* and Server.Close has returned.
C19_Witness ==
  /\ ofArg["t1"] = "/chat" /\ ofPc["t1"] = "created"
  /\ ofArg["t2"] = "/chat" /\ ofPc["t2"] = "rechecked"
  /\ ofResult["t1"] = ofResult["t2"]
  /\ scPc = "returned"

\* C20: when Server.Close returns, every session is closed and the
\* adapter's two maps are empty.
C20_ClosedAndEmptyAtReturn ==
  [][scPc = "adapters" /\ scPc' = "returned"
       => /\ \A s \in Sids : closed'[s]
          /\ rooms' = EmptyMap
          /\ socketRooms' = EmptyMap]_vars

\* The session is closed and nothing is left to run for its socket: Close
\* has returned (with the close callback, if it was the socket's), and
\* addSocket has returned.
Settled(s) ==
  /\ closePc[s] = "done"
  /\ hcPc[s] \in {"idle", "done"}
  /\ httpPc[s] = "added"

\* C15: once the session is closed and both the close and the connect
\* routing have run to their ends, the directory holds no socket for the
\* session's id.
C15_ClosedSocketRemoved ==
  \A s \in Sids : Settled(s) => s \notin sockets

\* C18: a packet the connect handler emits is enqueued after the CONNECT
\* packet of its socket.
C18_ConnectFirst ==
  [][\A s \in Sids :
       enqueued'[s][EmitPacket] > enqueued[s][EmitPacket]
         => enqueued[s][ConnectPacket] > 0]_vars

\* Two packets with equal fields.
SameData(a, b) == a.k = b.k /\ a.v = b.v
SamePacket(p, q) ==
  /\ p.type = q.type
  /\ p.nsp = q.nsp
  /\ p.id = q.id
  /\ SameData(p.data, q.data)

\* The data is a JSON number that is not negative: its text begins with a
\* digit.
DigitLed(data) == data.k = "number" /\ ~data.v.neg

C22_EioRoundTrip ==
  codec.pc = "eio decoded" =>
    /\ codec.given = "packet" =>
         /\ codec.result.ok
         /\ codec.result.packet.type = codec.packet.type
         /\ codec.result.packet.data = codec.packet.data
    /\ ~codec.result.ok <=>
         (codec.text = <<>> \/ codec.text[1] \notin ByteZero..ByteSix)

\* A NOOP packet with the payload <<'0', 255>> was encoded and decoded and
\* came back as it was.
C22_Witness ==
  /\ codec.pc = "eio decoded"
  /\ codec.packet = EioPacket(6, <<ByteZero, 255>>)
  /\ codec.text = <<ByteSix, ByteZero, 255>>
  /\ codec.result.ok
  /\ codec.result.packet = codec.packet

\* The frames that are no Engine.IO packet, no Socket.IO packet in a MESSAGE
\* or no well-formed EVENT.
Noise == NoiseEio \cup NoiseSio \cup NoiseEvent

\* The reader has taken a frame of the client of s.
FrameStep(s) == inbound'[s] = inbound[s] + 1 /\ codec'.sid = s

\* handleMessage is registered with the session.
Registered(s) == httpPc[s] \in {"routed", "listed", "joined", "added"}

\* C23: a frame that fails Engine.IO decoding, a MESSAGE whose payload fails
\* Socket.IO decoding and an EVENT whose data is not a non-empty array with a
\* string at its head are dropped: no handler and no ack callback is
\* started, the session is not closed, the reader goes on, and the handlers,
\* the pending acks, the rooms and the outbound queue are as before.  A
\* frame read later, after whatever frames, is processed: an EVENT starts
\* the handlers of its name with its arguments, an ACK of a pending id
\* starts its callback.
C23_NoiseDropped ==
  [][\A s \in Sids :
       FrameStep(s) =>
         /\ codec'.frame \in Noise =>
              UNCHANGED <<handlers, onDisconnect, ackVars, started, ackFuncs,
                          lastAck, discStarted, roomVars, chanVars, latchVars,
                          readerPc, writerPc, connOpen, onCloseCalls,
                          closeFrames>>
         /\ codec'.frame = EventFrame /\ Registered(s) =>
              /\ Len(started'[s]) = Len(handlers[s]["e1"])
              /\ \A i \in 1..Len(started'[s]) :
                   started'[s][i] = [handler |-> handlers[s]["e1"][i],
                                     args |-> <<>>, ack |-> NoId]
         /\ codec'.frame = AckedEventFrame /\ Registered(s) =>
              /\ Len(started'[s]) = Len(handlers[s]["e1"])
              /\ \A i \in 1..Len(started'[s]) :
                   started'[s][i] = [handler |-> handlers[s]["e1"][i],
                                     args |-> <<JNum(7)>>, ack |-> <<1>>]
         /\ codec'.frame = AckFrame /\ Registered(s) /\ 1 \in ackHandlers[s] =>
              /\ ackHandlers'[s] = ackHandlers[s] \ {1}
              /\ ackRuns'[s] =
                   Append(ackRuns[s], [id |-> 1, args |-> <<JNum(7)>>])
    ]_vars

\* The reader dropped an EVENT whose data begins with a number, and the
\* EVENT "e1" it read next started the two handlers of "e1"; the session is
\* open.
C23_Witness ==
  /\ codec.pc = "read"
  /\ codec.before = Codes(<<"4", "2", "[", "1", "]">>)
  /\ codec.frame = EventFrame
  /\ inbound["a"] = 2
  /\ Len(started["a"]) = 2
  /\ ~closed["a"]
  /\ readerPc["a"] = "run"

\* The place of n in a sequence that has it.
PlaceOf(seq, n) == CHOOSE i \in 1..Len(seq) : seq[i] = n

\* C24: the caller's calls of Broadcast keep their order at every recipient:
\* if a call returned before the caller made another one, every session to
\* which the packets of both were written has got the packet of the earlier
\* call before the packet of the later one.
C24_BroadcastOrder ==
  \A s \in Sids, a \in order.sent, b \in order.sent :
    /\ a[2] = s /\ b[2] = s
    /\ a[1] < b[1]
    /\ \E i \in 1..Len(written[s]) : written[s][i] = a[3]
    /\ \E i \in 1..Len(written[s]) : written[s][i] = b[3]
    => PlaceOf(written[s], a[3]) < PlaceOf(written[s], b[3])

\* No task is in a Join or a Leave call on the socket.
NoCallOn(s) == \A c \in Callers : procs[c].sid # s

\* C25: for every socket with an open session, whenever no Join or Leave
\* call on it is in progress, the socket's own set of rooms (Rooms()) is the
\* set the adapter has for it (SocketRooms(id)), whatever Join and Leave
\* calls were made on it at the same time, on the same room or not.
C25_RoomsAgree ==
  \A s \in Sids :
    httpPc[s] = "added" /\ ~closed[s] /\ NoCallOn(s)
      => sockRooms[s] = RoomsOf(s)

\* C26: once Close has completed on a session, none of its ping timers and
\* none of its pong-timeout timers is armed (so none fires later), however
\* Close was interleaved with a ping callback and with the reader's handling
\* of a PONG.
C26_TimersStopped ==
  \A s \in Sids :
    closePc[s] = "done" =>
      /\ pingTimer[s] # "armed"
      /\ pingTimeout[s] # "armed"
      /\ pingOrphans[s] = 0
      /\ timeoutOrphans[s] = 0

\* Armed ping timers and armed pong-timeouts of a session, the ones its
\* fields refer to and the ones they have forgotten.
ArmedPings(s) == (IF pingTimer[s] = "armed" THEN 1 ELSE 0) + pingOrphans[s]

ArmedTimeouts(s) ==
  (IF pingTimeout[s] = "armed" THEN 1 ELSE 0) + timeoutOrphans[s]

\* C27: the heartbeat is a single chain: at any time a session has at most
\* one armed ping timer and at most one armed pong-timeout, whatever the
\* client sends, PONGs that answer no outstanding PING included.
C27_SingleChain ==
  \A s \in Sids : ArmedPings(s) <= 1 /\ ArmedTimeouts(s) <= 1

\* The goroutine cannot run its next statement as things are: it awaits a
\* lock others hold, or it has returned holding a lock.
Blocked(c) ==
  \/ AtEnd(c)
  \/ /\ At(c, "Lock")
     /\ procs[c].wait = "no"
     /\ Writers(Ins(c)[2]) \cup PendingWriters(Ins(c)[2]) # {}
  \/ At(c, "Lock") /\ procs[c].wait = "pending" /\ Readers(Ins(c)[2]) # {}
  \/ At(c, "RLock") /\ procs[c].wait = "queued"

\* The goroutine took the namespace's lock first and holds or takes the
\* adapter's lock with it.
AdapterInsideNamespace(c) ==
  \E i \in 1..Len(Held(c)) :
    /\ Held(c)[i][1] = NamespaceMu
    /\ \/ \E j \in (i + 1)..Len(Held(c)) : Held(c)[j][1] = AdapterMu
       \/ (At(c, "Lock") \/ At(c, "RLock")) /\ Ins(c)[2] = AdapterMu

\* C28: concurrent Broadcast, Join, Leave, addSocket, handleClose (Leave of
\* each room, removeSocket, RemoveAll) and Adapter.Close never deadlock:
\* no goroutine takes the adapter's lock while it holds the namespace's
\* lock, in every state where a call is under way some goroutine in a call
\* can run its next statement, and every call returns, holding no lock.
C28_NoDeadlock ==
  /\ [](\A c \in Goroutines : ~AdapterInsideNamespace(c))
  /\ []((\E c \in Goroutines : Running(c))
          => \E c \in Goroutines : Running(c) /\ ~Blocked(c))
  /\ \A c \in Goroutines : Running(c) ~> (~Running(c) /\ Held(c) = <<>>)

\* A Broadcast holds the adapter's lock and the namespace's lock inside
\* it, a writer of the directory awaits the namespace's lock, and another
\* Broadcast, holding the adapter's lock, is queued behind that writer.
C28_Witness ==
  \E b, w, q \in Goroutines :
    /\ Held(b) = <<<<AdapterMu, "R">>, <<NamespaceMu, "R">>>>
    /\ w \in PendingWriters(NamespaceMu)
    /\ q \in QueuedReaders(NamespaceMu)
    /\ Held(q) = <<<<AdapterMu, "R">>>>

\* The packet that was the n-th to be enqueued is in the channel, has been
\* written.
Queued(s, n) == \E i \in 1..Len(outgoing[s]) : outgoing[s][i].n = n
Written(s, n) == \E i \in 1..Len(written[s]) : written[s][i] = n

\* The Sends of a session: its first PING, the PONGs that answer the
\* client's PINGs, the packets of the application.
MostSends == 1 + MaxClientFrames + MaxAppSends

\* C29: with a writer that is scheduled, every packet a Send has put into
\* the channel is eventually written to the connection unless the session
\* is closed in the meantime; and once the writer has taken the closed
\* case of its select it writes nothing more.
C29_WriterDrains ==
  /\ \A s \in EioSids : \A n \in 1..MostSends :
       Queued(s, n) ~> (Written(s, n) \/ closed[s])
  /\ [][\A s \in EioSids :
          writerPc[s] = "done" => written'[s] = written[s]]_vars

\* The writer has written packets while the session was open, then it has
\* observed the close and returned, and a packet is left in the channel.
C29_Witness ==
  \E s \in EioSids :
    /\ writerPc[s] = "done"
    /\ closeReason[s] # "write error"
    /\ Len(written[s]) >= 2
    /\ outgoing[s] # <<>>

\* The sockets the broadcast found in the directory when it spawned its
\* Sends.
Spawned == bc.targets \cap bc.live

\* C30: Broadcast ignores the errors of its Sends.  It returns nil and has
\* a Send under way or done for every target it found in the directory,
\* whatever state their sessions are in; the Send on a target leaves the
\* Broadcast's result and every session's close state as they are, touches
\* no other session's copies, and puts one copy into the channel of a
\* target that is open and has room; no session ever gets two.
C30_SendErrorsIgnored ==
  /\ [](bc.phase = "spawned" =>
          /\ bc.err = "nil"
          /\ \A s \in Spawned : s \in tasks \/ bcResult[s] # "none")
  /\ [](\A s \in Sids : Copies(s) <= 1)
  /\ [][\A s \in tasks \ tasks' :
          /\ bc' = bc
          /\ closed' = closed
          /\ closePc' = closePc
          /\ \A u \in Sids \ {s} : Copies(u)' = Copies(u)
          /\ ~closed[s] /\ Len(outgoing[s]) < QueueCap
               => bcResult'[s] = SendOk /\ Copies(s)' = Copies(s) + 1]_vars

\* A finished broadcast to two sockets: the Send on the one found its
\* channel full and the session is open still, the other has got its copy.
C30_Witness ==
  \E x \in Sids : \E s \in Sids \ {x} :
    /\ BroadcastDone
    /\ bc.err = "nil"
    /\ bcResult[x] = ErrSlowClient
    /\ ~closed[x]
    /\ closePc[x] = "idle"
    /\ Copies(x) = 0
    /\ bcResult[s] = SendOk
    /\ Copies(s) = 1

\* The step lets a Close call of the session through closeOnce.
Latches(s) == closePc[s] = "idle" /\ closePc'[s] = "latched"

\* C31: the reason on_close gets is the reason of the Close call that got
\* through closeOnce, and every cause has its reason: "read error" is the
\* reason exactly of the reader's return, "write error" exactly of the
\* writer's return after a write, "client closed" comes from a reader that
\* reads on an open connection and goes on, "ping timeout" from a pong-
\* timeout that was armed and has fired; "server shutdown" is the only
\* other reason here.  Once a call is through, the reason stays, the
\* session stays closed, and the callback is called while that reason
\* stands.
C31_CloseReasons ==
  [][\A s \in EioSids :
       /\ Latches(s) =>
            /\ closed'[s]
            /\ closeReason'[s] \in {"client closed", "read error", "write error",
                                    "ping timeout", "server shutdown"}
            /\ closeReason'[s] = "read error"
                 <=> readerPc[s] = "run" /\ readerPc'[s] = "done"
            /\ closeReason'[s] = "write error"
                 <=> /\ writerPc[s] = "run" /\ writerPc'[s] = "done"
                     /\ Len(outgoing'[s]) = Len(outgoing[s]) - 1
            /\ closeReason'[s] = "client closed"
                 => CanRead(s) /\ readerPc'[s] = "run"
            /\ closeReason'[s] = "ping timeout"
                 => pingTimeout[s] = "armed" \/ timeoutOrphans[s] > 0
       /\ closePc[s] # "idle" =>
            /\ closeReason'[s] = closeReason[s]
            /\ closed[s] /\ closed'[s]
            /\ closePc'[s] # "idle"
       /\ onCloseCalls'[s] # onCloseCalls[s] =>
            closePc[s] = "written" /\ closeReason'[s] = closeReason[s]]_vars

\* The client's CLOSE packet closed the session, its callback has been
\* called, and after that both the reader and the writer have returned,
\* the writer leaving a packet in the channel.
C31_Witness ==
  \E s \in EioSids :
    /\ closePc[s] = "done"
    /\ onCloseCalls[s] = 1
    /\ closeReason[s] = "client closed"
    /\ readerPc[s] = "done"
    /\ writerPc[s] = "done"
    /\ outgoing[s] # <<>>

\* C32: once a Close with the reason "server disconnect" (Socket.Disconnect,
\* or the DISCONNECT packet of the client) has run to its end, the session is
\* closed, the disconnect listeners that were started got that reason, and
\* the namespace directory does not hold the socket.
C32_DisconnectRemoves ==
  \A s \in EioSids :
    closeReason[s] = "server disconnect" /\ ClosePathDone(s) =>
      /\ closed[s]
      /\ \A i \in 1..Len(discStarted[s]) :
           discStarted[s][i].reason = "server disconnect"
      /\ s \notin sockets

HandlesPing(s) == pingsHandled'[s] = pingsHandled[s] + 1

\* The timers and the open/closed state of s are left as they are.
ScheduleKept(s) ==
  /\ pingTimer'[s] = pingTimer[s] /\ pingOrphans'[s] = pingOrphans[s]
  /\ pingTimeout'[s] = pingTimeout[s] /\ timeoutOrphans'[s] = timeoutOrphans[s]
  /\ closed'[s] = closed[s] /\ closePc'[s] = closePc[s]
  /\ closeReason'[s] = closeReason[s] /\ connOpen'[s] = connOpen[s]

\* C34 as stated: handling an inbound PING on an open session enqueues
\* exactly one PONG and leaves the ping timer, the pong-timeout and the
\* open/closed state alone.
C34_PingOnePong ==
  [][\A s \in EioSids :
       HandlesPing(s) /\ ~closed[s] =>
         /\ Len(outgoing'[s]) = Len(outgoing[s]) + 1
         /\ enqueued'[s][PongPacket] = enqueued[s][PongPacket] + 1
         /\ ScheduleKept(s)]_vars

\* C34, amended: handling an inbound PING is one Send of a PONG.  It
\* enqueues exactly one PONG, behind what is queued, when the session is open
\* and its queue has room; it enqueues nothing when the queue is full or the
\* session is closed and no room is left, and may do either on a closed
\* session with room; nothing else is enqueued and the ping timer, the
\* pong-timeout and the open/closed state are left alone.
C34_PingOneSend ==
  [][\A s \in EioSids :
       HandlesPing(s) =>
         /\ ~closed[s] /\ Len(outgoing[s]) < QueueCap => lastSend'[s] = SendOk
         /\ Len(outgoing[s]) >= QueueCap => lastSend'[s] # SendOk
         /\ lastSend'[s] = ErrSlowClient => ~closed[s]
         /\ lastSend'[s] = ErrSessionClosed => closed[s]
         /\ IF lastSend'[s] = SendOk
              THEN /\ Len(outgoing'[s]) = Len(outgoing[s]) + 1
                   /\ SubSeq(outgoing'[s], 1, Len(outgoing[s])) = outgoing[s]
                   /\ outgoing'[s][Len(outgoing'[s])].type = PongPacket.type
                   /\ enqueued'[s] =
                        [enqueued[s] EXCEPT ![PongPacket] = @ + 1]
              ELSE outgoing'[s] = outgoing[s] /\ enqueued'[s] = enqueued[s]
         /\ enqueuedSio'[s] = enqueuedSio[s]
         /\ ScheduleKept(s)]_vars

\* The PING of a client has been handled on an open session whose queue was
\* full: no PONG was enqueued.
C34_Witness ==
  \E s \in EioSids :
    /\ pingsHandled[s] = 1
    /\ enqueued[s][PongPacket] = 0
    /\ lastSend[s] = ErrSlowClient
    /\ Len(outgoing[s]) = QueueCap
    /\ ~closed[s]

\* The ids the tasks in an EmitWithAck call on s have got.
IdsInCalls(s) == {procs[c].id : c \in InEmitWithAck(s)}

\* C35: every id EmitWithAck allocates on a socket is greater than every id
\* allocated on it before, so the ids of the calls in progress, of the
\* pending callbacks and of the EVENTs sent are pairwise distinct; the EVENT
\* of an id is enqueued only when its callback is in the table, and the
\* client's ACK for an EVENT that was enqueued finds the callback there.
C35_AckIdsDistinct ==
  [][\A s \in EioSids :
       /\ ackID'[s] # ackID[s] =>
            /\ ackID'[s] = ackID[s] + 1
            /\ \E c \in Callers :
                 /\ procs[c] = NoCall
                 /\ procs'[c].op = "EmitWithAck" /\ procs'[c].sid = s
                 /\ procs'[c].id = ackID'[s]
            /\ \A n \in IdsInCalls(s) \cup ackHandlers[s] \cup EventsSent(s)
                          \cup Acked(s) : n < ackID'[s]
       /\ \A c, d \in InEmitWithAck(s)' : procs'[c].id = procs'[d].id => c = d
       /\ \A c \in InEmitWithAck(s)' :
            procs'[c].pc = "store" => procs'[c].id \notin ackHandlers'[s]
       /\ EventsSent(s)' # EventsSent(s) =>
            \E n \in ackHandlers[s] : EventsSent(s)' = EventsSent(s) \cup {n}
       /\ EventsSent(s)' \subseteq ackHandlers'[s] \cup Acked(s)'
       /\ inbound'[s] # inbound[s] => Len(ackRuns'[s]) = Len(ackRuns[s]) + 1]_vars

\* Two EmitWithAck calls have run at the same time with the ids 1 and 2, and
\* the client has acknowledged the EVENT of one of them while the other call
\* has not sent its EVENT.
C35_Witness ==
  \E s \in EioSids :
    /\ ackID[s] = 2
    /\ \E c \in Callers : procs[c].op = "EmitWithAck" /\ procs[c].sid = s
    /\ Acked(s) # {}
    /\ EventsSent(s) # {}

\* C36: at most one task is in a WriteMessage call on the WebSocket of a
\* session: the handshake write, the writes of the writer loop and the CLOSE
\* frame of Close never overlap.
C36_SingleWriter ==
  \A s \in EioSids : Cardinality(InWriteMessage(s)) <= 1

\* The session directory of the Engine.IO server (s.sessions): ServeHTTP
\* stores every session it makes, and the only Delete is in the close
\* callback ServeHTTP registers, which Close calls if it is the callback of
\* the session at that moment (handleClose, the callback of a socket, moves
\* hcPc, and no callback leaves onCloseCalls as it is).
GetSession(s) ==
  ~(closePc[s] = "done" /\ onCloseCalls[s] > 0 /\ hcPc[s] = "idle")

\* C37: a session whose Close has run to its end, with its close callback,
\* is not in the session directory of the Engine.IO server.
C37_ClosedSessionDeleted ==
  \A s \in EioSids :
    closed[s] /\ closePc[s] = "done" /\ hcPc[s] \in {"idle", "done"} =>
      ~GetSession(s)

=============================================================================
